---- MODULE Spec2Model ----
(***************************************************************************)
(* taskinator: voice-channel moderation for a social deduction game.       *)
(*                                                                         *)
(* The repository holds two programs built on the same design:             *)
(*   - the Bot (src/src/bot.rs): a background watcher task that follows an *)
(*     observed game-state stream and runs the orchestration routines      *)
(*     start_game / start_meeting / end_meeting / end_game;                *)
(*   - the Context (src/src/context.rs): a store holding the GameRecord    *)
(*     behind a readers-writer lock, with the same routines as methods.    *)
(* Spec is the Bot, SpecCtx is the Context.                                *)
(***************************************************************************)
EXTENDS Integers, Sequences, FiniteSets, TLC

(***************************************************************************)
(* Bounds of the model.                                                    *)
(***************************************************************************)
\* The feed publishes every roster of up to MaxPlayers seats (and FullRosters).
MaxPlayers == 1

(***************************************************************************)
(* The chat platform: members, voice channels.                             *)
(***************************************************************************)
\* The members of the guild, in the order the cache iterates over them.
UserOrder == <<"u1", "u2", "b0">>

Users == {UserOrder[i] : i \in 1..Len(UserOrder)}

\* CachedMember: account name, optional nickname (<<>> is None), bot flag, and
\* whether its roles contain the spectator role.
Member ==
  [u1 |-> [name |-> "a", nick |-> <<>>, bot |-> FALSE, spectator |-> FALSE],
   u2 |-> [name |-> "x", nick |-> <<"b">>, bot |-> FALSE, spectator |-> FALSE],
   b0 |-> [name |-> "c", nick |-> <<>>, bot |-> TRUE, spectator |-> FALSE]]

Humans == {u \in Users : ~Member[u].bot}

Channels == {"living", "dead", "none"}

\* A voice state: the channel the member is connected to and the server mute.
VoiceStates == [ch : Channels, mute : BOOLEAN]

(***************************************************************************)
(* The observed game state (taskinator_communicator::game::State).         *)
(***************************************************************************)
\* The names of the players of a round, by seat.
PlayerNames == <<"a", "b", "c", "d">>

Flags == [dead : BOOLEAN, impostor : BOOLEAN]

Seat(i, f) == [name |-> PlayerNames[i], dead |-> f.dead, impostor |-> f.impostor]

\* The rosters of n seats; in these the impostor, if there is one, has seat 1.
RostersOfLen(n) ==
  {[i \in 1..n |-> Seat(i, f[i])] :
     f \in {g \in [1..n -> Flags] : \A i \in 2..n : ~g[i].impostor}}

Crew == [dead |-> FALSE, impostor |-> FALSE]
DeadCrew == [dead |-> TRUE, impostor |-> FALSE]
Imp == [dead |-> FALSE, impostor |-> TRUE]
DeadImp == [dead |-> TRUE, impostor |-> TRUE]

Roster4(f1, f2, f3, f4) == <<Seat(1, f1), Seat(2, f2), Seat(3, f3), Seat(4, f4)>>

\* Four-seat rounds: the impostor dead, the impostor outnumbered, parity reached,
\* and a round that goes on with one player dead.
FullRosters ==
  {Roster4(DeadImp, Crew, Crew, Crew),
   Roster4(Imp, Crew, Crew, Crew),
   Roster4(Imp, Crew, DeadCrew, DeadCrew),
   Roster4(Crew, DeadCrew, Imp, Crew)}

Rosters == UNION {RostersOfLen(n) : n \in 0..MaxPlayers} \cup FullRosters

MeetingStates == {"Discussion", "NotVoted", "Voted", "Results"}

\* Option<State>: None, Menu, Lobby{players}, InGame{players, meeting}.
States ==
  {[kind |-> k, players |-> <<>>, meeting |-> "NoMeeting"] : k \in {"None", "Menu"}}
  \cup {[kind |-> "Lobby", players |-> r, meeting |-> "NoMeeting"] : r \in Rosters}
  \cup {[kind |-> "InGame", players |-> r, meeting |-> m] :
          r \in Rosters, m \in MeetingStates \cup {"NoMeeting"}}

NoState == [kind |-> "None", players |-> <<>>, meeting |-> "NoMeeting"]

(***************************************************************************)
(* State.                                                                  *)
(***************************************************************************)
VARIABLES
  voice,         \* the membership cache: member -> voice state
  player_names,  \* Bot.player_names: operator-assigned in-game names
  chan,          \* the watch channel's latest value (game_state_rx)
  unseen,        \* the watch channel holds a value the receiver has not seen
  closed,        \* the sender of the watch channel is gone
  bot_state,     \* the watcher's BotState
  pc,            \* the watcher task's position
  reqs,          \* the requests of the batch in flight (futs)
  res,           \* their outcomes: "pending", "ok" or "err"
  ret,           \* what batch returned: the successful requests
  notes,         \* messages batch sent to the broadcast channel
  logged,        \* warnings batch logged
  invoked,       \* the routines invoked for the observation being handled
  lastClass,     \* the class of the observation handled before this one
  scen,          \* how far the handled observations follow the reference run
  calls          \* routine -> invocations counted along the reference run

botVars == <<chan, unseen, closed, bot_state, pc, reqs, res, ret, notes, logged,
             invoked, lastClass, scen, calls>>

\* The Context (context.rs): the GameRecord behind its lock, and the tasks that
\* call the Context's methods.
VARIABLES
  game,          \* Context.game: <<>> (None) or <<the GameRecord>>
  wlock,         \* the task holding the write lock on game, or "none"
  rlock,         \* the tasks holding a read lock on game
  tpc,           \* task -> its position in the method it runs
  tcall,         \* task -> the method it runs
  treqs,         \* task -> the requests of its batch (futures)
  tres,          \* task -> their outcomes: "pending", "ok" or "err"
  tdel,          \* task -> the outcome of end_game's delete_message, or "none"
  tnotes,        \* task -> messages its batch sent to the control channel
  tlogged,       \* task -> errors its batch logged
  tret           \* task -> what the method returned: "ok", "err" or "none"

ctxVars == <<game, wlock, rlock, tpc, tcall, treqs, tres, tdel, tnotes, tlogged, tret>>

\* The standalone program (main.rs) keeps the same record behind the same lock;
\* its event loop and the tasks it spawns are the tasks.
VARIABLES
  mev,           \* task -> the event it handles, or NoEvent
  mresp,         \* task -> the replies its handler has sent
  mleft,         \* task -> the members mute_players has still to go through
  inserted       \* task -> what dead.insert returned ("new", "old"); the code drops it

mainVars == <<mev, mresp, mleft, inserted>>

\* The Bot's command handlers (bot.rs).
VARIABLES
  reply          \* what the command handled last answered or computed

vars == <<voice, player_names, botVars, ctxVars, mainVars, reply>>

\* What the Context's methods leave alone.
notCtx == <<player_names, botVars, mainVars, reply>>

Tasks == {"t1", "t2"}

NoEvent == [kind |-> "none", user |-> "none", arg |-> "none"]

InitMain ==
  /\ mev = [t \in Tasks |-> NoEvent]
  /\ mresp = [t \in Tasks |-> {}]
  /\ mleft = [t \in Tasks |-> <<>>]
  /\ inserted = [t \in Tasks |-> "none"]

NoReply == [kind |-> "none"]

InitCtx ==
  /\ game = <<>>
  /\ wlock = "none"
  /\ rlock = {}
  /\ tpc = [t \in Tasks |-> "idle"]
  /\ tcall = [t \in Tasks |-> "none"]
  /\ treqs = [t \in Tasks |-> <<>>]
  /\ tres = [t \in Tasks |-> <<>>]
  /\ tdel = [t \in Tasks |-> "none"]
  /\ tnotes = [t \in Tasks |-> 0]
  /\ tlogged = [t \in Tasks |-> 0]
  /\ tret = [t \in Tasks |-> "none"]

Routines == {"start_game", "start_meeting", "end_meeting", "end_game"}

NoCalls == [r \in Routines |-> 0]

(***************************************************************************)
(* Identity matching and membership (bot.rs, utils.rs).                    *)
(***************************************************************************)
\* KnownAs::known_as: the nickname, else the account name.
known_as(u) == IF Member[u].nick = <<>> THEN Member[u].name ELSE Member[u].nick[1]

\* The lookup key of match_members_to_players: the stored name, else known_as.
Ign(names, u) == IF u \in DOMAIN names THEN names[u] ELSE known_as(u)

\* find_map that keeps looking: the last player of that name.
RECURSIVE find_map_last(_, _)
find_map_last(players, ign) ==
  IF players = <<>> THEN <<>>
  ELSE IF players[Len(players)].name = ign THEN <<players[Len(players)]>>
  ELSE find_map_last(SubSeq(players, 1, Len(players) - 1), ign)

\* players.iter().find_map(..): the first player of that name, <<>> if none.
RECURSIVE find_map(_, _)
find_map(players, ign) ==
  IF players = <<>> THEN <<>>
  ELSE IF Head(players).name = ign THEN <<Head(players)>>
  ELSE find_map(Tail(players), ign)

\* Bot::get_members_in_channel: the members connected to ch that are not bots.
get_members_in_channel(v, ch) ==
  SelectSeq(UserOrder, LAMBDA u : v[u].ch = ch /\ ~Member[u].bot)

\* match_members_to_players returns None unless the state is Lobby or InGame.
HasRoster(s) == s.kind \in {"Lobby", "InGame"}

match_members_to_players(s, names, members) ==
  [i \in 1..Len(members) |->
     [m |-> members[i], p |-> find_map(s.players, Ign(names, members[i]))]]

(***************************************************************************)
(* The requests of the orchestration routines (bot.rs).                    *)
(***************************************************************************)
\* update_guild_member(user).mute(..).channel_id(..); "keep" is a field not set.
Req(u, mute, channel) == [user |-> u, mute |-> mute, channel |-> channel]

MapSeq(seq, Op(_)) == [i \in 1..Len(seq) |-> Op(seq[i])]

\* start_meeting without its !p.dead filter: every matched member is unmuted.
StartMeetingFutsAll(s, names, v) ==
  LET matched == match_members_to_players(s, names, get_members_in_channel(v, "living"))
      known == SelectSeq(matched, LAMBDA e : e.p # <<>>)
  IN  MapSeq(known, LAMBDA e : Req(e.m, "off", "keep"))
      \o MapSeq(get_members_in_channel(v, "dead"), LAMBDA m : Req(m, "on", "living"))

\* Bot::start_meeting: the living who are matched and not dead are unmuted, the
\* occupants of the dead channel are moved to the living channel and muted.
StartMeetingFuts(s, names, v) ==
  LET matched == match_members_to_players(s, names, get_members_in_channel(v, "living"))
      alive == SelectSeq(matched, LAMBDA e : e.p # <<>> /\ ~e.p[1].dead)
  IN  MapSeq(alive, LAMBDA e : Req(e.m, "off", "keep"))
      \o MapSeq(get_members_in_channel(v, "dead"), LAMBDA m : Req(m, "on", "living"))

\* mute_players with the unmatched muted like the living.
MutePlayersFutsAll(s, names, v) ==
  LET matched == match_members_to_players(s, names, get_members_in_channel(v, "living"))
  IN  MapSeq(matched, LAMBDA e : IF e.p # <<>> /\ e.p[1].dead THEN Req(e.m, "off", "dead")
                                   ELSE Req(e.m, "on", "keep"))

\* Bot::mute_players: the dead go to the dead channel unmuted, the living are muted.
MutePlayersFuts(s, names, v) ==
  LET matched == match_members_to_players(s, names, get_members_in_channel(v, "living"))
      known == SelectSeq(matched, LAMBDA e : e.p # <<>>)
  IN  MapSeq(known, LAMBDA e : IF e.p[1].dead THEN Req(e.m, "off", "dead")
                                 ELSE Req(e.m, "on", "keep"))

\* end_game that forgets the dead channel.
EndGameFutsLivingOnly(v) ==
  MapSeq(get_members_in_channel(v, "living"), LAMBDA m : Req(m, "off", "keep"))

\* Bot::end_game: the living channel is unmuted, the dead channel is moved back.
EndGameFuts(v) ==
  MapSeq(get_members_in_channel(v, "living"), LAMBDA m : Req(m, "off", "keep"))
  \o MapSeq(get_members_in_channel(v, "dead"), LAMBDA m : Req(m, "keep", "living"))

\* game_over with > for >=: parity would not end the round.
game_over_strict(s) ==
  IF s.kind = "InGame"
  THEN LET alive == SelectSeq(s.players, LAMBDA p : ~p.dead)
           imposters == SelectSeq(alive, LAMBDA p : p.impostor)
           crew == SelectSeq(alive, LAMBDA p : ~p.impostor)
       IN  Len(imposters) = 0 \/ Len(imposters) > Len(crew)
  ELSE TRUE

\* Bot::end_meeting: the round is over unless the state is InGame with a living
\* impostor and more living crew than living impostors.
game_over(s) ==
  IF s.kind = "InGame"
  THEN LET alive == SelectSeq(s.players, LAMBDA p : ~p.dead)
           imposters == SelectSeq(alive, LAMBDA p : p.impostor)
           crew == SelectSeq(alive, LAMBDA p : ~p.impostor)
       IN  Len(imposters) = 0 \/ Len(imposters) >= Len(crew)
  ELSE TRUE

\* The remote service applies a request that succeeds.
Apply(v, r) ==
  [v EXCEPT ![r.user] =
     [ch |-> IF r.channel = "keep" THEN @.ch ELSE r.channel,
      mute |-> IF r.mute = "keep" THEN @.mute ELSE r.mute = "on"]]

(***************************************************************************)
(* The watcher's match on the observed state (Bot::start).                 *)
(***************************************************************************)
\* The arm of the match an observed state falls in.
ObsClass(s) ==
  IF s.kind = "InGame" /\ s.meeting \in MeetingStates THEN "meeting"
  ELSE IF s.kind = "InGame" THEN "gameplay"
  ELSE "noround"

\* Variants of the arms with a slip in them, for checking that the lifecycle
\* properties below depend on the arms.
MeetingArmUnguarded(bs) == [state |-> "InMeeting", call |-> "start_meeting"]

MeetingArmFromInGameOnly(bs) ==
  IF bs = "InGame"
  THEN [state |-> "InMeeting", call |-> "start_meeting"]
  ELSE [state |-> bs, call |-> "none"]

GameplayArmKeepsPhase(bs) ==
  CASE bs = "InMeeting" -> [state |-> bs, call |-> "end_meeting"]
    [] bs = "PreGame" -> [state |-> bs, call |-> "start_game"]
    [] OTHER -> [state |-> bs, call |-> "none"]

NoRoundArmInGameOnly(bs) ==
  IF bs = "InGame" THEN [state |-> "PreGame", call |-> "end_game"]
  ELSE IF bs = "GameOver" THEN [state |-> "PreGame", call |-> "none"]
  ELSE [state |-> bs, call |-> "none"]

NoRoundArmEndsAgain(bs) ==
  IF bs \in {"InGame", "InMeeting", "GameOver"}
  THEN [state |-> "PreGame", call |-> "end_game"]
  ELSE [state |-> bs, call |-> "none"]

\* Each arm gives the BotState it leaves and the routine it invokes.
MeetingArm(bs) ==
  IF bs \in {"PreGame", "InGame"}
  THEN [state |-> "InMeeting", call |-> "start_meeting"]
  ELSE [state |-> bs, call |-> "none"]

GameplayArm(bs) ==
  CASE bs = "InMeeting" -> [state |-> bs, call |-> "end_meeting"]
    [] bs = "PreGame" -> [state |-> "InGame", call |-> "start_game"]
    [] OTHER -> [state |-> bs, call |-> "none"]

NoRoundArm(bs) ==
  LET first == IF bs \in {"InGame", "InMeeting"}
               THEN [state |-> "PreGame", call |-> "end_game"]
               ELSE [state |-> bs, call |-> "none"]
  IN  IF first.state = "GameOver" THEN [first EXCEPT !.state = "PreGame"] ELSE first

Arm(s, bs) ==
  CASE ObsClass(s) = "meeting" -> MeetingArm(bs)
    [] ObsClass(s) = "gameplay" -> GameplayArm(bs)
    [] OTHER -> NoRoundArm(bs)

\* Where the watcher task stands once the arm has invoked its routine:
\* start_game is mute_players, end_meeting starts with its settle delay.
Entry(call) ==
  CASE call = "none" -> "await"
    [] call = "start_game" -> "mute_players"
    [] OTHER -> call

(***************************************************************************)
(* The reference run: Lobby, InGame, InGame(Discussion), InGame.           *)
(***************************************************************************)
ReferenceRun ==
  <<[kind |-> "Lobby", meeting |-> "NoMeeting"],
    [kind |-> "InGame", meeting |-> "NoMeeting"],
    [kind |-> "InGame", meeting |-> "Discussion"],
    [kind |-> "InGame", meeting |-> "NoMeeting"]>>

\* scen counts the observations handled while they follow the reference run
\* from the start, and is Off once they have left it.
Off == Len(ReferenceRun) + 1

ScenNext(k, s) ==
  IF k < Len(ReferenceRun) /\ s.kind = ReferenceRun[k + 1].kind
       /\ s.meeting = ReferenceRun[k + 1].meeting
  THEN k + 1
  ELSE Off

Count(c, k, call) ==
  IF k = Off THEN NoCalls
  ELSE IF call = "none" THEN c
  ELSE [c EXCEPT ![call] = @ + 1]

(***************************************************************************)
(* Bot::batch.                                                             *)
(***************************************************************************)
Pending(rs) == {i \in 1..Len(rs) : rs[i] = "pending"}

\* partition(TwiResult::is_ok): the requests that succeeded, those that failed.
BatchSuccesses(rq, rs) ==
  LET idx == SelectSeq([i \in 1..Len(rq) |-> i], LAMBDA i : rs[i] = "ok")
  IN  MapSeq(idx, LAMBDA i : rq[i])

\* A batch that gives up at its first error.
BatchErrorsFirst(rq, rs) ==
  LET idx == SelectSeq([i \in 1..Len(rq) |-> i], LAMBDA i : rs[i] = "err")
  IN  IF idx = <<>> THEN <<>> ELSE <<rq[idx[1]]>>

BatchErrors(rq, rs) ==
  LET idx == SelectSeq([i \in 1..Len(rq) |-> i], LAMBDA i : rs[i] = "err")
  IN  MapSeq(idx, LAMBDA i : rq[i])

\* One message to the broadcast channel when there are errors.
BatchNotes(errors) == IF errors # <<>> THEN 1 ELSE 0

\* One warning for each error.
BatchLogged(errors) == Len(errors)

(***************************************************************************)
(* Initial state.                                                          *)
(***************************************************************************)
InitVoices ==
  {v \in [Users -> VoiceStates] :
     /\ v["b0"] = [ch |-> "living", mute |-> FALSE]
     /\ \A u \in Users : v[u].ch = "none" => ~v[u].mute}

InitBot ==
  /\ chan = NoState
  /\ unseen = FALSE
  /\ closed = FALSE
  /\ bot_state = "PreGame"
  /\ pc = "await"
  /\ reqs = <<>>
  /\ res = <<>>
  /\ ret = <<>>
  /\ notes = 0
  /\ logged = 0
  /\ invoked = <<>>
  /\ lastClass = "none"
  /\ scen = 0
  /\ calls = NoCalls

Init ==
  /\ voice \in InitVoices
  /\ player_names = <<>>
  /\ InitBot
  /\ InitCtx
  /\ InitMain
  /\ reply = NoReply

(***************************************************************************)
(* The observed game-state source.                                         *)
(***************************************************************************)
Feed(s) ==
  /\ ~closed
  /\ chan' = s
  /\ unseen' = TRUE
  /\ UNCHANGED <<voice, player_names, closed, bot_state, pc, reqs, res, ret, notes,
                 logged, invoked, lastClass, scen, calls>>
  /\ UNCHANGED <<ctxVars, mainVars, reply>>

FeedClose ==
  /\ ~closed
  /\ closed' = TRUE
  /\ UNCHANGED <<voice, player_names, chan, unseen, bot_state, pc, reqs, res, ret,
                 notes, logged, invoked, lastClass, scen, calls>>
  /\ UNCHANGED <<ctxVars, mainVars, reply>>

(***************************************************************************)
(* The watcher task (Bot::start).                                          *)
(***************************************************************************)
\* A watcher that takes the closure for a change and goes on with the value it has.
ChangedIgnoresClosure ==
  /\ pc = "await"
  /\ unseen \/ closed
  /\ unseen' = FALSE
  /\ pc' = "woken"
  /\ UNCHANGED <<voice, player_names, chan, closed, bot_state, reqs, res, ret, notes,
                 logged, invoked, lastClass, scen, calls>>
  /\ UNCHANGED <<ctxVars, mainVars, reply>>

\* game_state_rx.changed() returns Ok: the latest value is marked seen.
Changed ==
  /\ pc = "await"
  /\ unseen
  /\ unseen' = FALSE
  /\ pc' = "woken"
  /\ UNCHANGED <<voice, player_names, chan, closed, bot_state, reqs, res, ret, notes,
                 logged, invoked, lastClass, scen, calls>>
  /\ UNCHANGED <<ctxVars, mainVars, reply>>

\* changed() returns Err: nothing unseen and the sender is gone; the loop breaks.
ChangedErr ==
  /\ pc = "await"
  /\ ~unseen
  /\ closed
  /\ pc' = "stopped"
  /\ UNCHANGED <<voice, player_names, chan, unseen, closed, bot_state, reqs, res, ret,
                 notes, logged, invoked, lastClass, scen, calls>>
  /\ UNCHANGED <<ctxVars, mainVars, reply>>

\* borrow() and the match: the phase changes and the routine is entered.
Dispatch ==
  /\ pc = "woken"
  /\ LET a == Arm(chan, bot_state)
         k == ScenNext(scen, chan)
     IN  /\ bot_state' = a.state
         /\ pc' = Entry(a.call)
         /\ invoked' = IF a.call = "none" THEN <<>> ELSE <<a.call>>
         /\ scen' = k
         /\ calls' = Count(calls, k, a.call)
  /\ lastClass' = ObsClass(chan)
  /\ UNCHANGED <<voice, player_names, chan, unseen, closed, reqs, res, ret, notes, logged>>
  /\ UNCHANGED <<ctxVars, mainVars, reply>>

\* The batch is handed to join_all: every request is issued.
Issue(futs) ==
  /\ reqs' = futs
  /\ res' = [i \in 1..Len(futs) |-> "pending"]
  /\ pc' = "batch"

\* start_meeting up to its batch; without a roster the expect panics.
StartMeetingBuild ==
  /\ pc = "start_meeting"
  /\ IF HasRoster(chan)
     THEN Issue(StartMeetingFuts(chan, player_names, voice))
     ELSE pc' = "panicked" /\ UNCHANGED <<reqs, res>>
  /\ UNCHANGED <<voice, player_names, chan, unseen, closed, bot_state, ret, notes,
                 logged, invoked, lastClass, scen, calls>>
  /\ UNCHANGED <<ctxVars, mainVars, reply>>

\* end_meeting after its settle delay: the round is judged on the latest state.
SleepDone ==
  /\ pc = "end_meeting"
  /\ IF game_over(chan)
     THEN /\ bot_state' = "GameOver"
          /\ pc' = "end_game"
          /\ invoked' = Append(invoked, "end_game")
          /\ calls' = Count(calls, scen, "end_game")
     ELSE /\ bot_state' = "InGame"
          /\ pc' = "mute_players"
          /\ UNCHANGED <<invoked, calls>>
  /\ UNCHANGED <<voice, player_names, chan, unseen, closed, reqs, res, ret, notes,
                 logged, lastClass, scen>>
  /\ UNCHANGED <<ctxVars, mainVars, reply>>

\* mute_players up to its batch; without a roster the expect panics.
MutePlayersBuild ==
  /\ pc = "mute_players"
  /\ IF HasRoster(chan)
     THEN Issue(MutePlayersFuts(chan, player_names, voice))
     ELSE pc' = "panicked" /\ UNCHANGED <<reqs, res>>
  /\ UNCHANGED <<voice, player_names, chan, unseen, closed, bot_state, ret, notes,
                 logged, invoked, lastClass, scen, calls>>
  /\ UNCHANGED <<ctxVars, mainVars, reply>>

\* end_game up to its batch.
EndGameBuild ==
  /\ pc = "end_game"
  /\ Issue(EndGameFuts(voice))
  /\ UNCHANGED <<voice, player_names, chan, unseen, closed, bot_state, ret, notes,
                 logged, invoked, lastClass, scen, calls>>
  /\ UNCHANGED <<ctxVars, mainVars, reply>>

\* One request of the batch completes; the service applies it if it succeeds.
ReqComplete(i, ok) ==
  /\ pc = "batch"
  /\ i \in Pending(res)
  /\ res' = [res EXCEPT ![i] = IF ok THEN "ok" ELSE "err"]
  /\ voice' = IF ok THEN Apply(voice, reqs[i]) ELSE voice
  /\ UNCHANGED <<player_names, chan, unseen, closed, bot_state, pc, reqs, ret, notes,
                 logged, invoked, lastClass, scen, calls>>
  /\ UNCHANGED <<ctxVars, mainVars, reply>>

\* join_all is done: the errors are reported, the successes returned.
BatchFinish ==
  /\ pc = "batch"
  /\ Pending(res) = {}
  /\ LET errors == BatchErrors(reqs, res)
     IN  /\ notes' = BatchNotes(errors)
         /\ logged' = BatchLogged(errors)
  /\ ret' = BatchSuccesses(reqs, res)
  /\ pc' = "returned"
  /\ UNCHANGED <<voice, player_names, chan, unseen, closed, bot_state, reqs, res,
                 invoked, lastClass, scen, calls>>
  /\ UNCHANGED <<ctxVars, mainVars, reply>>

\* A return that marks the stream seen, as a routine reading it with
\* borrow_and_update would leave it.
ReturnMarksSeen ==
  /\ pc = "returned"
  /\ pc' = "await"
  /\ unseen' = FALSE
  /\ reqs' = <<>>
  /\ res' = <<>>
  /\ ret' = <<>>
  /\ notes' = 0
  /\ logged' = 0
  /\ UNCHANGED <<voice, player_names, chan, closed, bot_state, invoked,
                 lastClass, scen, calls>>
  /\ UNCHANGED <<ctxVars, mainVars, reply>>

\* The routine returns to the loop; what batch returned is dropped.
Return ==
  /\ pc = "returned"
  /\ pc' = "await"
  /\ reqs' = <<>>
  /\ res' = <<>>
  /\ ret' = <<>>
  /\ notes' = 0
  /\ logged' = 0
  /\ UNCHANGED <<voice, player_names, chan, unseen, closed, bot_state, invoked,
                 lastClass, scen, calls>>
  /\ UNCHANGED <<ctxVars, mainVars, reply>>

Next ==
  \/ \E s \in States : Feed(s)
  \/ FeedClose
  \/ Changed
  \/ ChangedErr
  \/ Dispatch
  \/ StartMeetingBuild
  \/ SleepDone
  \/ MutePlayersBuild
  \/ EndGameBuild
  \/ \E i \in 1..Len(reqs), ok \in BOOLEAN : ReqComplete(i, ok)
  \/ BatchFinish
  \/ Return

Spec == Init /\ [][Next]_vars

(***************************************************************************)
(* Properties of the lifecycle state machine (Spec).                       *)
(***************************************************************************)
\* What the watcher is looking at when it handles an observation.
SeesMeeting ==
  chan.kind = "InGame" /\ chan.meeting \in {"Discussion", "NotVoted", "Voted", "Results"}

SeesGameplay == chan.kind = "InGame" /\ chan.meeting = "NoMeeting"

SeesNoRound == chan.kind \in {"Lobby", "Menu", "None"}

SeenClass ==
  IF SeesMeeting THEN "meeting" ELSE IF SeesGameplay THEN "gameplay" ELSE "noround"

\* The watcher has woken for an observation; the step in which it handles it.
Woken == pc = "woken"

Handling == pc = "woken" /\ pc' # "woken"

\* The step in which end_meeting, its settle delay over, judges the round.
Judging == pc = "end_meeting" /\ pc' # "end_meeting"

Nothing == /\ bot_state' = bot_state
           /\ invoked' = <<>>
           /\ pc' = "await"

Called(sg, sm, em, eg) ==
  /\ calls["start_game"] = sg
  /\ calls["start_meeting"] = sm
  /\ calls["end_meeting"] = em
  /\ calls["end_game"] = eg

\* The round is concluded on a roster: among the players not dead there is no
\* impostor, or at least as many impostors as crew.
RoundConcluded(players) ==
  LET living == {i \in 1..Len(players) : ~players[i].dead}
      imps == {i \in living : players[i].impostor}
  IN  imps = {} \/ Cardinality(imps) >= Cardinality(living \ imps)

\* C1: from PreGame, handling Lobby, InGame(no meeting), InGame(Discussion),
\* InGame(no meeting) in this order, with the round not concluded on the roster
\* end_meeting reads, takes the phase PreGame -> InGame -> InMeeting -> InGame and
\* invokes start_game once, start_meeting once and end_meeting once.
C1_ReferenceRun ==
  /\ [](scen = 1 => bot_state = "PreGame" /\ Called(0, 0, 0, 0))
  /\ [](scen = 2 => bot_state = "InGame" /\ Called(1, 0, 0, 0))
  /\ [](scen = 3 => bot_state = "InMeeting" /\ Called(1, 1, 0, 0))
  /\ [](scen = 4 /\ pc = "end_meeting" => bot_state = "InMeeting" /\ Called(1, 1, 1, 0))
  /\ [][scen = 4 /\ Judging /\ chan.kind = "InGame" /\ ~RoundConcluded(chan.players)
        => bot_state' = "InGame" /\ pc' = "mute_players"
             /\ calls' = calls /\ scen' = scen]_vars
  /\ [](scen = 4 /\ bot_state = "InGame" => Called(1, 1, 1, 0))

C1_Witness ==
  scen = 4 /\ bot_state = "InGame" /\ pc = "returned" /\ Called(1, 1, 1, 0)

\* C2: an observation of the class of the one handled just before it invokes no
\* routine and leaves the phase unchanged.
C2_RepeatIsIdle ==
  [][Handling /\ lastClass = SeenClass => Nothing]_vars

C2_Witness ==
  Woken /\ lastClass = "gameplay" /\ SeesGameplay /\ bot_state = "InGame"

\* C3: a meeting sub-state observed in PreGame or InGame sets the phase to
\* InMeeting and invokes start_meeting once; in InMeeting or GameOver it changes
\* nothing and invokes nothing.
C3_MeetingObserved ==
  [][Handling /\ SeesMeeting
     => IF bot_state \in {"PreGame", "InGame"}
        THEN /\ bot_state' = "InMeeting"
             /\ invoked' = <<"start_meeting">>
             /\ pc' = "start_meeting"
        ELSE Nothing]_vars

C3_Witness ==
  /\ bot_state = "InMeeting" /\ invoked = <<"start_meeting">> /\ pc = "batch"
  /\ chan.meeting = "Results" /\ lastClass = "meeting"

\* C5: no round observed in InGame or InMeeting sets the phase to PreGame and
\* invokes end_game once; in PreGame it invokes nothing.
C5_NoRoundObserved ==
  [][Handling /\ SeesNoRound
     => /\ bot_state \in {"InGame", "InMeeting"}
           => /\ bot_state' = "PreGame"
              /\ invoked' = <<"end_game">>
              /\ pc' = "end_game"
        /\ bot_state = "PreGame" => Nothing]_vars

C5_Witness ==
  /\ bot_state = "PreGame" /\ invoked = <<"end_game">> /\ pc = "returned"
  /\ lastClass = "noround"

\* C6: GameOver is entered only by end_meeting, which invokes end_game as it
\* enters it; in GameOver a meeting or gameplay observation changes nothing, and
\* the next no-round observation sets the phase to PreGame and invokes nothing.
C6_GameOverTransient ==
  /\ [][bot_state # "GameOver" /\ bot_state' = "GameOver"
        => /\ pc = "end_meeting" /\ pc' = "end_game"
           /\ invoked = <<"end_meeting">>
           /\ invoked' = <<"end_meeting", "end_game">>]_vars
  /\ [][bot_state = "GameOver" /\ bot_state' # "GameOver"
        => Handling /\ SeesNoRound /\ bot_state' = "PreGame"]_vars
  /\ [][bot_state = "GameOver" /\ Handling
        => /\ invoked' = <<>> /\ pc' = "await"
           /\ bot_state' = IF SeesNoRound THEN "PreGame" ELSE "GameOver"]_vars
  /\ [](bot_state = "GameOver" /\ invoked # <<>>
        => invoked = <<"end_meeting", "end_game">>)

C6_Witness ==
  /\ Woken /\ bot_state = "GameOver" /\ SeesNoRound
  /\ invoked = <<"end_meeting", "end_game">>

\* C4 as stated: end_meeting judges the round concluded exactly when the roster
\* it reads after the settle delay is concluded.
C4_Original ==
  [][Judging => ((bot_state' = "GameOver") <=> RoundConcluded(chan.players))]_vars

\* C4, amended: gameplay observed in InMeeting invokes end_meeting, which judges
\* the round concluded exactly when the state it reads after the settle delay is
\* not InGame or its roster is concluded; then it sets GameOver and runs end_game,
\* whose batch holds no mute=on request; otherwise it sets InGame and re-mutes.
C4_EndMeetingJudges ==
  /\ [][Handling /\ SeesGameplay /\ bot_state = "InMeeting"
        => /\ pc' = "end_meeting"
           /\ invoked' = <<"end_meeting">>
           /\ bot_state' = bot_state]_vars
  /\ [][Judging
        => IF chan.kind # "InGame" \/ RoundConcluded(chan.players)
           THEN /\ bot_state' = "GameOver"
                /\ pc' = "end_game"
                /\ invoked' = Append(invoked, "end_game")
           ELSE /\ bot_state' = "InGame"
                /\ pc' = "mute_players"
                /\ invoked' = invoked]_vars
  /\ [](bot_state = "GameOver" /\ pc \in {"batch", "returned"}
        => \A i \in 1..Len(reqs) : reqs[i].mute # "on")

C4_Witness ==
  /\ chan.kind = "InGame"
  /\ chan.players = Roster4(DeadImp, Crew, Crew, Crew)
  /\ bot_state = "GameOver"
  /\ pc = "batch"
  /\ invoked = <<"end_meeting", "end_game">>

(***************************************************************************)
(* Properties of the orchestration routines and of batch (Spec).           *)
(***************************************************************************)
\* The occupants of a channel the routines act on.
Occupants(v, ch) == {u \in Users : v[u].ch = ch /\ ~Member[u].bot}

\* The player an occupant is matched to (<<>> if none): the first of the roster
\* whose name is the occupant's stored name, else nickname, else account name.
MatchOf(s, names, u) ==
  LET key == IF u \in DOMAIN names THEN names[u]
             ELSE IF Member[u].nick # <<>> THEN Member[u].nick[1]
             ELSE Member[u].name
      at == {i \in 1..Len(s.players) : s.players[i].name = key}
  IN  IF at = {} THEN <<>>
      ELSE <<s.players[CHOOSE i \in at : \A j \in at : i <= j]>>

RequestsFor(rq, u) == {i \in 1..Len(rq) : rq[i].user = u}

\* The voice states once every request of rq has been applied.
RECURSIVE After(_, _)
After(v, rq) == IF rq = <<>> THEN v ELSE After(Apply(v, Head(rq)), Tail(rq))

\* A voice state is what a request asked for.
Satisfies(vs, r) ==
  /\ r.mute # "keep" => vs.mute = (r.mute = "on")
  /\ r.channel # "keep" => vs.ch = r.channel

\* Every request that has succeeded shows in the voice states.
SuccessesApplied ==
  pc \in {"batch", "returned"}
  => \A i \in 1..Len(reqs) : res[i] = "ok" => Satisfies(voice[reqs[i].user], reqs[i])

StartsMeetingBatch == pc = "start_meeting" /\ pc' = "batch"

Living == [ch |-> "living", mute |-> FALSE]

\* C7 as stated: start_meeting, all requests succeeding, leaves every occupant
\* matched to a dead player in the dead channel unmuted and every occupant matched
\* to a living player in the living channel unmuted, with one request each.
C7_Original ==
  [][StartsMeetingBatch
     => \A u \in Occupants(voice, "living") :
          LET p == MatchOf(chan, player_names, u)
          IN  p # <<>>
              => /\ After(voice, reqs')[u] =
                      IF p[1].dead THEN [ch |-> "dead", mute |-> FALSE] ELSE Living
                 /\ Cardinality(RequestsFor(reqs', u)) = 1]_vars

\* C7, amended: start_meeting, all requests succeeding, leaves every occupant of
\* the living channel matched to a player not dead in the living channel unmuted,
\* and every occupant of the dead channel in the living channel muted, with one
\* request each; an occupant of the living channel matched to a dead player, or
\* to none, gets no request and stays as it is.
C7_StartMeeting ==
  /\ [][StartsMeetingBatch
        => LET after == After(voice, reqs')
           IN  /\ \A u \in Occupants(voice, "living") :
                    LET p == MatchOf(chan, player_names, u)
                    IN  IF p # <<>> /\ ~p[1].dead
                        THEN /\ after[u] = Living
                             /\ Cardinality(RequestsFor(reqs', u)) = 1
                        ELSE /\ after[u] = voice[u]
                             /\ RequestsFor(reqs', u) = {}
               /\ \A u \in Occupants(voice, "dead") :
                    /\ after[u] = [ch |-> "living", mute |-> TRUE]
                    /\ Cardinality(RequestsFor(reqs', u)) = 1
               /\ \A u \in Users \ (Occupants(voice, "living") \cup Occupants(voice, "dead")) :
                    RequestsFor(reqs', u) = {}]_vars
  /\ []SuccessesApplied

C7_Witness ==
  /\ pc = "returned"
  /\ invoked = <<"start_meeting">>
  /\ reqs = <<Req("u2", "on", "living")>>
  /\ res = <<"ok">>
  /\ voice["u2"] = [ch |-> "living", mute |-> TRUE]
  /\ voice["u1"].ch = "living"
  /\ LET p == MatchOf(chan, player_names, "u1") IN p # <<>> /\ p[1].dead

Publishes == unseen' /\ (chan' # chan \/ ~unseen)

\* What the watcher task holds and has done.
watcherVars == <<bot_state, pc, reqs, res, ret, invoked, lastClass, calls, voice>>

\* C27: the stream holds one value. A publication replaces it, marks it unseen
\* and touches nothing of the watcher, so that a value replaced before the
\* watcher's next read leaves no trace. The watcher wakes only for an unseen
\* value, and the match, end_meeting after its delay and the routines that
\* fetch the roster each act on the value the stream holds when they read.
\* A routine never marks the stream seen: a value published while it ran is
\* still unseen when it returns, and the next changed() wakes for it.
C27_LastValueWins ==
  /\ [][/\ Publishes => UNCHANGED watcherVars
        /\ (pc = "await" /\ pc' # "await") =>
             (unseen /\ ~unseen' /\ pc' = "woken" /\ chan' = chan) \/ (closed /\ pc' = "stopped")
        /\ (pc = "woken" /\ pc' # "woken") =>
             (lastClass' = ObsClass(chan) /\ bot_state' = Arm(chan, bot_state).state)
        /\ (pc = "end_meeting" /\ pc' # "end_meeting") =>
             bot_state' = IF game_over(chan) THEN "GameOver" ELSE "InGame"
        /\ (pc \notin {"await", "woken"} /\ pc' # pc) => (unseen' = unseen /\ chan' = chan)
        /\ (pc = "returned" /\ pc' # "returned") => pc' = "await"]_vars
  /\ [](pc = "await" /\ unseen => ENABLED Changed)
  /\ [](pc = "await" /\ ~unseen => ~ENABLED Changed)

\* end_meeting has returned, and a value of another arm than the one the
\* watcher acted on was published in the meantime and waits unseen.
C27_Witness ==
  /\ pc = "returned"
  /\ invoked # <<>> /\ Head(invoked) = "end_meeting"
  /\ unseen
  /\ ObsClass(chan) # lastClass

\* A routine that matches members to players fetches the roster.
FetchesRoster == pc \in {"start_meeting", "mute_players"} /\ pc' # pc

\* C28: whenever start_game, start_meeting or end_meeting fetches the roster,
\* the stream holds a Lobby or InGame state, so that the match does not fail
\* and the expect does not panic.
C28_Original == [][FetchesRoster => (HasRoster(chan) /\ pc' # "panicked")]_vars



(***************************************************************************)
(* The Context (context.rs): the GameRecord and the routines that use it.  *)
(***************************************************************************)
\* The control messages a round can be started from: id and author.
Msgs == {[id |-> "m1", author |-> "u1"], [id |-> "m2", author |-> "u2"]}

\* struct Game (ctrl_channel and guild_id are fixed by the configuration).
Game(msg) ==
  [dead |-> {}, ctrl_msg |-> msg.id, ctrl_user |-> msg.author,
   meeting_in_progress |-> FALSE]

\* The lock: a writer excludes everyone, a reader excludes writers.
CanWrite == wlock = "none" /\ rlock = {}

CanRead == wlock = "none"

\* Context::end_game without its else branch: it goes on with no record taken.
EndGameFoundAlways(g) == TRUE

\* `if let Some(game) = self.game.write().await.take()`
EndGameFound(g) == g # <<>>

\* A take that hands the record out and leaves it in the store as well.
TakeKeeps(g) == g

\* Option::take: what the store holds afterwards.
Take(g) == <<>>

\* Context::get_members_in_channel: bots and spectators are left out.
CtxGetMembersInChannel(v, ch) ==
  SelectSeq(UserOrder,
            LAMBDA u : v[u].ch = ch /\ ~Member[u].bot /\ ~Member[u].spectator)

\* Context::mute_players: the living are muted, the dead in the living channel
\* are moved to the dead channel and unmuted.
CtxMutePlayersFuts(g, v) ==
  LET members == CtxGetMembersInChannel(v, "living")
  IN  MapSeq(SelectSeq(members, LAMBDA m : m \notin g.dead), LAMBDA m : Req(m, "on", "keep"))
      \o MapSeq(SelectSeq(members, LAMBDA m : m \in g.dead), LAMBDA m : Req(m, "off", "dead"))

\* Context::emergency_meeting: the living are unmuted, the occupants of the
\* dead channel are moved to the living channel and muted.
CtxEmergencyMeetingFuts(g, v) ==
  MapSeq(SelectSeq(CtxGetMembersInChannel(v, "living"), LAMBDA m : m \notin g.dead),
         LAMBDA m : Req(m, "off", "keep"))
  \o MapSeq(CtxGetMembersInChannel(v, "dead"), LAMBDA m : Req(m, "on", "living"))

\* Context::end_game: everyone in the living channel is unmuted, everyone in
\* the dead channel is moved to the living channel.
CtxEndGameFuts(v) ==
  MapSeq(CtxGetMembersInChannel(v, "living"), LAMBDA m : Req(m, "off", "keep"))
  \o MapSeq(CtxGetMembersInChannel(v, "dead"), LAMBDA m : Req(m, "keep", "living"))

\* Context::batch: the message goes to the control channel of the record.
CtxBatchNotes(errors, g) == IF errors # <<>> /\ g # <<>> THEN 1 ELSE 0

\* Where a routine goes on after its batch.
AfterBatch(call) == IF call = "end_game" THEN "done" ELSE "commit"

CtxIssue(t, call, futs) ==
  /\ tcall' = [tcall EXCEPT ![t] = call]
  /\ treqs' = [treqs EXCEPT ![t] = futs]
  /\ tres' = [tres EXCEPT ![t] = [i \in 1..Len(futs) |-> "pending"]]
  /\ tpc' = [tpc EXCEPT ![t] = "batch"]

\* Context::start_game: the record is replaced, whatever was there.
CtxStartGame(t, msg) ==
  /\ tpc[t] = "idle"
  /\ CanWrite
  /\ game' = <<Game(msg)>>
  /\ UNCHANGED <<voice, notCtx, wlock, rlock, tpc, tcall, treqs, tres,
                 tdel, tnotes, tlogged, tret>>

\* Context::make_dead: the write lock is held while the mute request runs.
CtxMakeDead(t, target) ==
  /\ tpc[t] = "idle"
  /\ CanWrite
  /\ tcall' = [tcall EXCEPT ![t] = "make_dead"]
  /\ IF game = <<>>
     THEN /\ tpc' = [tpc EXCEPT ![t] = "done"]
          /\ UNCHANGED <<game, wlock, treqs, tres>>
     ELSE /\ game' = <<[game[1] EXCEPT !.dead = @ \cup {target}]>>
          /\ IF target \notin game[1].dead /\ game[1].meeting_in_progress
             THEN /\ wlock' = t
                  /\ treqs' = [treqs EXCEPT ![t] = <<Req(target, "on", "keep")>>]
                  /\ tres' = [tres EXCEPT ![t] = <<"pending">>]
                  /\ tpc' = [tpc EXCEPT ![t] = "md_mute"]
             ELSE /\ tpc' = [tpc EXCEPT ![t] = "done"]
                  /\ UNCHANGED <<wlock, treqs, tres>>
  /\ UNCHANGED <<voice, notCtx, rlock, tdel, tnotes, tlogged, tret>>

\* The mute request of make_dead resolves; a failure is logged.
CtxMakeDeadMuted(t, ok) ==
  /\ tpc[t] = "md_mute"
  /\ ok => voice[treqs[t][1].user].ch # "none"
  /\ voice' = IF ok THEN Apply(voice, treqs[t][1]) ELSE voice
  /\ treqs' = [treqs EXCEPT ![t] = <<>>]
  /\ tres' = [tres EXCEPT ![t] = <<>>]
  /\ tlogged' = [tlogged EXCEPT ![t] = IF ok THEN 0 ELSE 1]
  /\ wlock' = "none"
  /\ tpc' = [tpc EXCEPT ![t] = "done"]
  /\ UNCHANGED <<notCtx, game, rlock, tcall, tdel, tnotes, tret>>

\* Context::end_game, to the delete_message call: the record is taken; without
\* a record the routine returns Ok.
CtxEndGameTake(t) ==
  /\ tpc[t] = "idle"
  /\ CanWrite
  /\ tcall' = [tcall EXCEPT ![t] = "end_game"]
  /\ game' = Take(game)
  /\ IF EndGameFound(game)
     THEN /\ wlock' = t
          /\ tpc' = [tpc EXCEPT ![t] = "eg_delete"]
          /\ UNCHANGED tret
     ELSE /\ tpc' = [tpc EXCEPT ![t] = "done"]
          /\ tret' = [tret EXCEPT ![t] = "ok"]
          /\ UNCHANGED wlock
  /\ UNCHANGED <<voice, notCtx, rlock, treqs, tres, tdel, tnotes, tlogged>>

\* delete_message resolves: an error is returned with `?`, otherwise the
\* requests are built and the batch started.
CtxEndGameDeleted(t, ok) ==
  /\ tpc[t] = "eg_delete"
  /\ wlock' = "none"
  /\ tdel' = [tdel EXCEPT ![t] = IF ok THEN "ok" ELSE "err"]
  /\ IF ok
     THEN /\ CtxIssue(t, "end_game", CtxEndGameFuts(voice))
          /\ UNCHANGED tret
     ELSE /\ tpc' = [tpc EXCEPT ![t] = "done"]
          /\ tret' = [tret EXCEPT ![t] = "err"]
          /\ UNCHANGED <<tcall, treqs, tres>>
  /\ UNCHANGED <<voice, notCtx, game, rlock, tnotes, tlogged>>

\* Context::mute_players, to its batch: the record is read (unwrap) and the
\* requests are built.
CtxMutePlayersBuild(t) ==
  /\ tpc[t] = "idle"
  /\ CanRead
  /\ IF game = <<>>
     THEN /\ tpc' = [tpc EXCEPT ![t] = "panicked"]
          /\ tcall' = [tcall EXCEPT ![t] = "mute_players"]
          /\ UNCHANGED <<treqs, tres>>
     ELSE CtxIssue(t, "mute_players", CtxMutePlayersFuts(game[1], voice))
  /\ UNCHANGED <<voice, notCtx, game, wlock, rlock, tdel, tnotes,
                 tlogged, tret>>

\* Context::emergency_meeting, to its batch: the record is read (unwrap) and the
\* requests are built.
CtxEmergencyMeetingBuild(t) ==
  /\ tpc[t] = "idle"
  /\ CanRead
  /\ IF game = <<>>
     THEN /\ tpc' = [tpc EXCEPT ![t] = "panicked"]
          /\ tcall' = [tcall EXCEPT ![t] = "emergency_meeting"]
          /\ UNCHANGED <<treqs, tres>>
     ELSE CtxIssue(t, "emergency_meeting", CtxEmergencyMeetingFuts(game[1], voice))
  /\ UNCHANGED <<voice, notCtx, game, wlock, rlock, tdel, tnotes,
                 tlogged, tret>>

\* One request of a batch resolves (a batch has at most one request for each
\* member).
CtxReqComplete(t, i, ok) ==
  /\ tpc[t] = "batch"
  /\ i \in Pending(tres[t])
  /\ tres' = [tres EXCEPT ![t][i] = IF ok THEN "ok" ELSE "err"]
  /\ voice' = IF ok THEN Apply(voice, treqs[t][i]) ELSE voice
  /\ UNCHANGED <<notCtx, game, wlock, rlock, tpc, tcall, treqs, tdel,
                 tnotes, tlogged, tret>>

\* Context::batch after join_all: with errors the record is read, and if there
\* is one a message is sent to its control channel, the read lock held.
CtxBatchFinish(t) ==
  /\ tpc[t] = "batch"
  /\ Pending(tres[t]) = {}
  /\ LET errors == BatchErrors(treqs[t], tres[t])
         n == CtxBatchNotes(errors, game)
     IN  /\ errors # <<>> => CanRead
         /\ tnotes' = [tnotes EXCEPT ![t] = n]
         /\ IF n > 0
            THEN /\ rlock' = rlock \cup {t}
                 /\ tpc' = [tpc EXCEPT ![t] = "notify"]
                 /\ UNCHANGED <<tlogged, tret>>
                 /\ UNCHANGED <<treqs, tres>>
            ELSE /\ tlogged' = [tlogged EXCEPT ![t] = BatchLogged(errors)]
                 /\ tpc' = [tpc EXCEPT ![t] = AfterBatch(tcall[t])]
                 /\ tret' = [tret EXCEPT ![t] = IF tcall[t] = "end_game" THEN "ok" ELSE @]
                 /\ treqs' = [treqs EXCEPT ![t] = <<>>]
                 /\ tres' = [tres EXCEPT ![t] = <<>>]
                 /\ UNCHANGED rlock
  /\ UNCHANGED <<voice, notCtx, game, wlock, tcall, tdel>>

\* create_message resolves (its result is dropped); the errors are logged and
\* batch returns, dropping the results.
CtxNotified(t) ==
  /\ tpc[t] = "notify"
  /\ rlock' = rlock \ {t}
  /\ tlogged' = [tlogged EXCEPT ![t] = BatchLogged(BatchErrors(treqs[t], tres[t]))]
  /\ tpc' = [tpc EXCEPT ![t] = AfterBatch(tcall[t])]
  /\ tret' = [tret EXCEPT ![t] = IF tcall[t] = "end_game" THEN "ok" ELSE @]
  /\ treqs' = [treqs EXCEPT ![t] = <<>>]
  /\ tres' = [tres EXCEPT ![t] = <<>>]
  /\ UNCHANGED <<voice, notCtx, game, wlock, tcall, tdel, tnotes>>

\* mute_players and emergency_meeting after their batch: the record is written
\* (expect("expected game")).
CtxCommit(t) ==
  /\ tpc[t] = "commit"
  /\ CanWrite
  /\ IF game = <<>>
     THEN /\ tpc' = [tpc EXCEPT ![t] = "panicked"]
          /\ UNCHANGED <<game, tret>>
     ELSE /\ game' = <<[game[1] EXCEPT
                          !.meeting_in_progress = (tcall[t] = "emergency_meeting")]>>
          /\ tpc' = [tpc EXCEPT ![t] = "done"]
          /\ tret' = [tret EXCEPT ![t] = "ok"]
  /\ UNCHANGED <<voice, notCtx, wlock, rlock, tcall, treqs, tres, tdel,
                 tnotes, tlogged>>

\* The call is over (returned or panicked); the task takes the next event.
CtxReturn(t) ==
  /\ tpc[t] \in {"done", "panicked"}
  /\ tpc' = [tpc EXCEPT ![t] = "idle"]
  /\ tcall' = [tcall EXCEPT ![t] = "none"]
  /\ treqs' = [treqs EXCEPT ![t] = <<>>]
  /\ tres' = [tres EXCEPT ![t] = <<>>]
  /\ tdel' = [tdel EXCEPT ![t] = "none"]
  /\ tnotes' = [tnotes EXCEPT ![t] = 0]
  /\ tlogged' = [tlogged EXCEPT ![t] = 0]
  /\ tret' = [tret EXCEPT ![t] = "none"]
  /\ UNCHANGED <<voice, notCtx, game, wlock, rlock>>

NextCtx ==
  \/ \E t \in Tasks, msg \in Msgs : CtxStartGame(t, msg)
  \/ \E t \in Tasks, target \in Humans : CtxMakeDead(t, target)
  \/ \E t \in Tasks, ok \in BOOLEAN : CtxMakeDeadMuted(t, ok)
  \/ \E t \in Tasks : CtxEndGameTake(t)
  \/ \E t \in Tasks, ok \in BOOLEAN : CtxEndGameDeleted(t, ok)
  \/ \E t \in Tasks : CtxMutePlayersBuild(t)
  \/ \E t \in Tasks : CtxEmergencyMeetingBuild(t)
  \/ \E t \in Tasks, i \in DOMAIN UserOrder, ok \in BOOLEAN : CtxReqComplete(t, i, ok)
  \/ \E t \in Tasks : CtxBatchFinish(t)
  \/ \E t \in Tasks : CtxNotified(t)
  \/ \E t \in Tasks : CtxCommit(t)
  \/ \E t \in Tasks : CtxReturn(t)

SpecCtx == Init /\ [][NextCtx]_vars

(***************************************************************************)
(* Properties of the Context.                                              *)
(***************************************************************************)
\* The step by which task t enters Context::end_game.
EntersEndGame(t) == tpc[t] = "idle" /\ tpc'[t] # "idle" /\ tcall'[t] = "end_game"

\* The step by which the batch of task t is left with its errors collected.
LeavesBatch(t) == tpc[t] = "batch" /\ tpc'[t] # "batch"

\* C8: end_game leaves no GameRecord behind, so an end_game invoked next finds
\* none; and an end_game that finds none issues no request (no delete_message,
\* no mute, no move), changes no voice state and returns Ok at once.
C8_EndGameIdempotent ==
  [][\A t \in Tasks :
       EntersEndGame(t) =>
         /\ game' = <<>>
         /\ game = <<>> =>
              /\ tpc'[t] = "done"
              /\ tret'[t] = "ok"
              /\ treqs'[t] = <<>>
              /\ tdel'[t] = "none"
              /\ voice' = voice
              /\ wlock' = wlock]_vars

\* C8: one end_game has deleted the control message of a round, another has
\* returned Ok without a request, and there is no record.
C8_Witness ==
  \E t1 \in Tasks : \E t2 \in Tasks \ {t1} :
    /\ tcall[t1] = "end_game" /\ tdel[t1] = "ok"
    /\ tcall[t2] = "end_game" /\ tpc[t2] = "done" /\ tdel[t2] = "none"
    /\ tret[t2] = "ok" /\ treqs[t2] = <<>>
    /\ game = <<>>

\* C10: a batch that completes with failed requests emits exactly one
\* notification, a batch without failures emits none, whichever routine ran
\* it.  Context::end_game has taken the record before its batch runs, so its
\* batch has no control channel to notify.
C10_Original ==
  [][\A t \in Tasks :
       LeavesBatch(t) =>
         tnotes'[t] = BatchNotes(BatchErrors(treqs[t], tres[t]))]_vars

(***************************************************************************)
(* The standalone program (main.rs): commands and reactions.               *)
(***************************************************************************)
\* The event loop handles reactions itself and spawns a task for each command.
Loop == "t1"

Spawned == "t2"

\* Context.owners: the owners of the application.
Owners == {"u2"}

\* The ids a control message can have.
MsgIds == {m.id : m \in Msgs}

\* MessageCreate with a command the parser knows: author and, for dead, target.
Commands ==
  [kind : {"new", "end"}, user : Humans, arg : {"none"}]
  \cup [kind : {"dead"}, user : Humans, arg : Humans \cup {"none"}]

\* ReactionAdd / ReactionRemove with one of the two emoji: who, on which message.
Reactions ==
  [kind : {"react_meeting", "react_dead", "unreact_meeting"}, user : Humans, arg : MsgIds]

\* What main.rs leaves alone.
notMain == <<player_names, botVars, reply, tnotes, tlogged>>

\* The program runs until main returns or panics.
Running == tpc[Loop] \notin {"stopped", "panicked"}

\* Context::is_in_control (context.rs): an owner, or the control user of the
\* record.
is_in_control(g, u) == u \in Owners \/ (g # <<>> /\ g[1].ctrl_user = u)

\* The auth of the dead command without the comparison with the control user.
CmdAuthAnyone(g, u) == g # <<>>

\* `game.is_some() && game.as_ref().map(|g| g.ctrl_user == msg.author.id).unwrap()`
CmdAuth(g, u) == g # <<>> /\ g[1].ctrl_user = u

\* An auth of the meeting reaction that asks for the control message only.
MeetingAuthAnyone(g, u, m) == g # <<>> /\ g[1].ctrl_msg = m

\* The auth of the meeting reaction: the control user on the control message.
MeetingAuth(g, u, m) == g # <<>> /\ g[1].ctrl_user = u /\ g[1].ctrl_msg = m

\* The auth of the dead reaction: anyone on the control message.
DeadAuth(g, m) == g # <<>> /\ g[1].ctrl_msg = m

\* get_members_in_channel of main.rs: bots and spectators are left out.
MainGetMembersInChannel(v, ch) ==
  SelectSeq(UserOrder,
            LAMBDA u : v[u].ch = ch /\ ~Member[u].bot /\ ~Member[u].spectator)

\* mute_players of main.rs, the one request of a member.
MainMuteFut(g, m) ==
  IF m \in g.dead THEN Req(m, "off", "dead") ELSE Req(m, "on", "keep")

\* emergency_meeting of main.rs: everyone in the living channel is unmuted, the
\* occupants of the dead channel are moved to the living channel and muted.
MainEmergencyMeetingFuts(v) ==
  MapSeq(MainGetMembersInChannel(v, "living"), LAMBDA m : Req(m, "off", "keep"))
  \o MapSeq(MainGetMembersInChannel(v, "dead"), LAMBDA m : Req(m, "on", "living"))

\* end_game of main.rs.
MainEndGameFuts(v) ==
  MapSeq(MainGetMembersInChannel(v, "living"), LAMBDA m : Req(m, "off", "keep"))
  \o MapSeq(MainGetMembersInChannel(v, "dead"), LAMBDA m : Req(m, "keep", "living"))

\* The handler of task t is over with result r.
MainDone(t, r) ==
  /\ tpc' = [tpc EXCEPT ![t] = "done"]
  /\ tret' = [tret EXCEPT ![t] = r]

MainIssue(t, call, futs) ==
  /\ tcall' = [tcall EXCEPT ![t] = call]
  /\ treqs' = [treqs EXCEPT ![t] = futs]
  /\ tres' = [tres EXCEPT ![t] = [i \in 1..Len(futs) |-> "pending"]]
  /\ tpc' = [tpc EXCEPT ![t] = "batch"]

\* MessageCreate: process_command is spawned and deletes the command message
\* (for new it goes on to post the control message and its two reactions).
MainSpawn(ev) ==
  /\ Running
  /\ tpc[Loop] = "idle"
  /\ tpc[Spawned] = "idle"
  /\ mev' = [mev EXCEPT ![Spawned] = ev]
  /\ tpc' = [tpc EXCEPT ![Spawned] = "cmd_delete"]
  /\ tcall' = [tcall EXCEPT ![Spawned] = ev.kind]
  /\ UNCHANGED <<voice, notMain, inserted, game, wlock, rlock, treqs, tres, tdel, tret, mresp,
                 mleft>>

\* The remote calls every command starts with resolve; an error is returned
\* with `?`.
MainCmdDeleted(ok) ==
  /\ Running
  /\ tpc[Spawned] = "cmd_delete"
  /\ IF ok
     THEN /\ tpc' = [tpc EXCEPT ![Spawned] =
                       CASE mev[Spawned].kind = "new" -> "new_store"
                         [] mev[Spawned].kind = "end" -> "end_auth"
                         [] OTHER -> "dead_auth"]
          /\ UNCHANGED tret
     ELSE MainDone(Spawned, "err")
  /\ UNCHANGED <<voice, notMain, inserted, game, wlock, rlock, tcall, treqs, tres, tdel, mev, mresp,
                 mleft>>

\* new: the record is replaced by one for the control message just posted.
MainNewStore(m) ==
  /\ Running
  /\ tpc[Spawned] = "new_store"
  /\ CanWrite
  /\ game' = <<Game([id |-> m, author |-> mev[Spawned].user])>>
  /\ tpc' = [tpc EXCEPT ![Spawned] = "new_delay"]
  /\ UNCHANGED <<voice, notMain, wlock, rlock, tcall, treqs, tres, tdel, tret, mainVars>>

\* new: after the delay mute_players starts on the living channel.
MainNewDelay ==
  /\ Running
  /\ tpc[Spawned] = "new_delay"
  /\ mleft' = [mleft EXCEPT ![Spawned] = MainGetMembersInChannel(voice, "living")]
  /\ tpc' = [tpc EXCEPT ![Spawned] = "mp_loop"]
  /\ UNCHANGED <<voice, notMain, inserted, game, wlock, rlock, tcall, treqs, tres, tdel, tret, mev,
                 mresp>>

\* mute_players, the head of its loop: the record is read (unwrap) and the one
\* request of the next member is issued.
MainMuteNext(t) ==
  /\ Running
  /\ tpc[t] = "mp_loop"
  /\ IF mleft[t] = <<>>
     THEN /\ MainDone(t, "ok")
          /\ UNCHANGED <<treqs, tres>>
     ELSE /\ CanRead
          /\ IF game = <<>>
             THEN /\ tpc' = [tpc EXCEPT ![t] = "panicked"]
                  /\ UNCHANGED <<treqs, tres, tret>>
             ELSE /\ treqs' = [treqs EXCEPT ![t] = <<MainMuteFut(game[1], Head(mleft[t]))>>]
                  /\ tres' = [tres EXCEPT ![t] = <<"pending">>]
                  /\ tpc' = [tpc EXCEPT ![t] = "mp_req"]
                  /\ UNCHANGED tret
  /\ UNCHANGED <<voice, notMain, game, wlock, rlock, tcall, tdel, mainVars>>

\* mute_players: join_all of the one request returns; its result is dropped.
MainMuteReqDone(t, ok) ==
  /\ Running
  /\ tpc[t] = "mp_req"
  /\ voice' = IF ok THEN Apply(voice, treqs[t][1]) ELSE voice
  /\ tres' = [tres EXCEPT ![t] = <<IF ok THEN "ok" ELSE "err">>]
  /\ tpc' = [tpc EXCEPT ![t] = "mp_commit"]
  /\ UNCHANGED <<notMain, game, wlock, rlock, tcall, treqs, tdel, tret, mainVars>>

\* mute_players, the end of the loop body: meeting_in_progress is cleared if
\* there is a record.
MainMuteCommit(t) ==
  /\ Running
  /\ tpc[t] = "mp_commit"
  /\ CanWrite
  /\ game' = IF game = <<>> THEN game
             ELSE <<[game[1] EXCEPT !.meeting_in_progress = FALSE]>>
  /\ mleft' = [mleft EXCEPT ![t] = Tail(@)]
  /\ treqs' = [treqs EXCEPT ![t] = <<>>]
  /\ tres' = [tres EXCEPT ![t] = <<>>]
  /\ tpc' = [tpc EXCEPT ![t] = "mp_loop"]
  /\ UNCHANGED <<voice, notMain, inserted, wlock, rlock, tcall, tdel, tret, mev, mresp>>

\* end: the author must be the control user of the record.
MainEndAuth ==
  /\ Running
  /\ tpc[Spawned] = "end_auth"
  /\ CanRead
  /\ IF CmdAuth(game, mev[Spawned].user)
     THEN /\ tpc' = [tpc EXCEPT ![Spawned] = "end_take"]
          /\ UNCHANGED tret
     ELSE MainDone(Spawned, "ok")
  /\ UNCHANGED <<voice, notMain, game, wlock, rlock, tcall, treqs, tres, tdel, mainVars>>

\* end: the record is taken.
MainEndTake ==
  /\ Running
  /\ tpc[Spawned] = "end_take"
  /\ CanWrite
  /\ game' = <<>>
  /\ IF game # <<>>
     THEN /\ tpc' = [tpc EXCEPT ![Spawned] = "end_delete"]
          /\ UNCHANGED tret
     ELSE MainDone(Spawned, "ok")
  /\ UNCHANGED <<voice, notMain, wlock, rlock, tcall, treqs, tres, tdel, mainVars>>

\* end: the control message is deleted (`?`), then end_game issues its batch.
MainEndCtrlDeleted(ok) ==
  /\ Running
  /\ tpc[Spawned] = "end_delete"
  /\ tdel' = [tdel EXCEPT ![Spawned] = IF ok THEN "ok" ELSE "err"]
  /\ IF ok
     THEN /\ MainIssue(Spawned, "end_game", MainEndGameFuts(voice))
          /\ UNCHANGED tret
     ELSE /\ MainDone(Spawned, "err")
          /\ UNCHANGED <<tcall, treqs, tres>>
  /\ UNCHANGED <<voice, notMain, game, wlock, rlock, mainVars>>

\* dead: the author must be the control user of the record, and name a target.
MainDeadAuth ==
  /\ Running
  /\ tpc[Spawned] = "dead_auth"
  /\ CanRead
  /\ IF ~CmdAuth(game, mev[Spawned].user)
     THEN /\ mresp' = [mresp EXCEPT ![Spawned] = @ \cup {"no_permission"}]
          /\ MainDone(Spawned, "ok")
     ELSE IF mev[Spawned].arg = "none"
     THEN /\ mresp' = [mresp EXCEPT ![Spawned] = @ \cup {"no_target"}]
          /\ MainDone(Spawned, "ok")
     ELSE /\ tpc' = [tpc EXCEPT ![Spawned] = "dead_insert"]
          /\ UNCHANGED <<mresp, tret>>
  /\ UNCHANGED <<voice, notMain, inserted, game, wlock, rlock, tcall, treqs, tres, tdel, mev,
                 mleft>>

\* dead: the target is inserted in the dead set of the record, if there is one.
MainDeadInsert ==
  /\ Running
  /\ tpc[Spawned] = "dead_insert"
  /\ CanWrite
  /\ IF game # <<>>
     THEN /\ game' = <<[game[1] EXCEPT !.dead = @ \cup {mev[Spawned].arg}]>>
          /\ inserted' = [inserted EXCEPT ![Spawned] =
                            IF mev[Spawned].arg \in game[1].dead THEN "old" ELSE "new"]
          /\ tpc' = [tpc EXCEPT ![Spawned] = "dead_notify"]
          /\ UNCHANGED <<mresp, tret>>
     ELSE /\ mresp' = [mresp EXCEPT ![Spawned] = @ \cup {"no_game"}]
          /\ MainDone(Spawned, "ok")
          /\ UNCHANGED <<game, inserted>>
  /\ UNCHANGED <<voice, notMain, wlock, rlock, tcall, treqs, tres, tdel, mev, mleft>>

\* dead: the notice is posted (`?`); a target the cache has unmuted is muted.
MainDeadNotified(ok) ==
  /\ Running
  /\ tpc[Spawned] = "dead_notify"
  /\ IF ~ok
     THEN /\ MainDone(Spawned, "err")
          /\ UNCHANGED <<mresp, treqs, tres>>
     ELSE /\ mresp' = [mresp EXCEPT ![Spawned] = @ \cup {"deadifying"}]
          /\ UNCHANGED tret
          /\ IF ~voice[mev[Spawned].arg].mute
             THEN /\ treqs' = [treqs EXCEPT ![Spawned] = <<Req(mev[Spawned].arg, "on", "keep")>>]
                  /\ tres' = [tres EXCEPT ![Spawned] = <<"pending">>]
                  /\ tpc' = [tpc EXCEPT ![Spawned] = "dead_mute"]
             ELSE /\ tpc' = [tpc EXCEPT ![Spawned] = "dead_delay"]
                  /\ UNCHANGED <<treqs, tres>>
  /\ UNCHANGED <<voice, notMain, inserted, game, wlock, rlock, tcall, tdel, mev, mleft>>

\* dead: the mute request resolves (`?`).
MainDeadMuted(ok) ==
  /\ Running
  /\ tpc[Spawned] = "dead_mute"
  /\ ok => voice[treqs[Spawned][1].user].ch # "none"
  /\ voice' = IF ok THEN Apply(voice, treqs[Spawned][1]) ELSE voice
  /\ treqs' = [treqs EXCEPT ![Spawned] = <<>>]
  /\ tres' = [tres EXCEPT ![Spawned] = <<>>]
  /\ IF ok
     THEN /\ tpc' = [tpc EXCEPT ![Spawned] = "dead_delay"]
          /\ UNCHANGED tret
     ELSE MainDone(Spawned, "err")
  /\ UNCHANGED <<notMain, game, wlock, rlock, tcall, tdel, mainVars>>

\* dead: after the delay the notice is deleted.
MainDeadDelay ==
  /\ Running
  /\ tpc[Spawned] = "dead_delay"
  /\ MainDone(Spawned, "ok")
  /\ UNCHANGED <<voice, notMain, game, wlock, rlock, tcall, treqs, tres, tdel, mainVars>>

\* ReactionAdd with the meeting emoji: emergency_meeting for the control user.
MainReactMeeting(ev) ==
  /\ Running
  /\ tpc[Loop] = "idle"
  /\ ev.kind = "react_meeting"
  /\ CanRead
  /\ MeetingAuth(game, ev.user, ev.arg)
  /\ mev' = [mev EXCEPT ![Loop] = ev]
  /\ MainIssue(Loop, "emergency_meeting", MainEmergencyMeetingFuts(voice))
  /\ UNCHANGED <<voice, notMain, inserted, game, wlock, rlock, tdel, tret, mresp, mleft>>

\* ReactionRemove with the meeting emoji: mute_players for the control user.
MainUnreactMeeting(ev) ==
  /\ Running
  /\ tpc[Loop] = "idle"
  /\ ev.kind = "unreact_meeting"
  /\ CanRead
  /\ MeetingAuth(game, ev.user, ev.arg)
  /\ mev' = [mev EXCEPT ![Loop] = ev]
  /\ mleft' = [mleft EXCEPT ![Loop] = MainGetMembersInChannel(voice, "living")]
  /\ tcall' = [tcall EXCEPT ![Loop] = "mute_players"]
  /\ tpc' = [tpc EXCEPT ![Loop] = "mp_loop"]
  /\ UNCHANGED <<voice, notMain, inserted, game, wlock, rlock, treqs, tres, tdel, tret, mresp>>

\* ReactionAdd with the dead emoji on the control message, by anyone.
MainReactDead(ev) ==
  /\ Running
  /\ tpc[Loop] = "idle"
  /\ ev.kind = "react_dead"
  /\ CanRead
  /\ DeadAuth(game, ev.arg)
  /\ mev' = [mev EXCEPT ![Loop] = ev]
  /\ tcall' = [tcall EXCEPT ![Loop] = "react_dead"]
  /\ tpc' = [tpc EXCEPT ![Loop] = "rd_insert"]
  /\ UNCHANGED <<voice, notMain, inserted, game, wlock, rlock, treqs, tres, tdel, tret, mresp,
                 mleft>>

\* The reacting user is inserted in the dead set, if there is a record.
MainReactDeadInsert ==
  /\ Running
  /\ tpc[Loop] = "rd_insert"
  /\ CanWrite
  /\ game' = IF game = <<>> THEN game
             ELSE <<[game[1] EXCEPT !.dead = @ \cup {mev[Loop].user}]>>
  /\ inserted' = [inserted EXCEPT ![Loop] =
                    IF game = <<>> THEN "none"
                    ELSE IF mev[Loop].user \in game[1].dead THEN "old" ELSE "new"]
  /\ tpc' = [tpc EXCEPT ![Loop] = "rd_read"]
  /\ UNCHANGED <<voice, notMain, wlock, rlock, tcall, treqs, tres, tdel, tret, mev, mresp,
                 mleft>>

\* meeting_in_progress is read (unwrap); in a meeting the user is muted.
MainReactDeadRead ==
  /\ Running
  /\ tpc[Loop] = "rd_read"
  /\ CanRead
  /\ IF game = <<>>
     THEN /\ tpc' = [tpc EXCEPT ![Loop] = "panicked"]
          /\ UNCHANGED <<treqs, tres, tret>>
     ELSE IF game[1].meeting_in_progress
     THEN /\ treqs' = [treqs EXCEPT ![Loop] = <<Req(mev[Loop].user, "on", "keep")>>]
          /\ tres' = [tres EXCEPT ![Loop] = <<"pending">>]
          /\ tpc' = [tpc EXCEPT ![Loop] = "rd_mute"]
          /\ UNCHANGED tret
     ELSE /\ MainDone(Loop, "ok")
          /\ UNCHANGED <<treqs, tres>>
  /\ UNCHANGED <<voice, notMain, game, wlock, rlock, tcall, tdel, mainVars>>

\* The mute request resolves; an error is returned from main with `?`.
MainReactDeadMuted(ok) ==
  /\ Running
  /\ tpc[Loop] = "rd_mute"
  /\ ok => voice[treqs[Loop][1].user].ch # "none"
  /\ voice' = IF ok THEN Apply(voice, treqs[Loop][1]) ELSE voice
  /\ tres' = [tres EXCEPT ![Loop] = <<IF ok THEN "ok" ELSE "err">>]
  /\ IF ok
     THEN MainDone(Loop, "ok")
     ELSE /\ tpc' = [tpc EXCEPT ![Loop] = "stopped"]
          /\ tret' = [tret EXCEPT ![Loop] = "err"]
  /\ UNCHANGED <<notMain, game, wlock, rlock, tcall, treqs, tdel, mainVars>>

\* One request of the join_all of emergency_meeting or end_game resolves.
MainReqComplete(t, i, ok) ==
  /\ Running
  /\ tpc[t] = "batch"
  /\ i \in Pending(tres[t])
  /\ tres' = [tres EXCEPT ![t][i] = IF ok THEN "ok" ELSE "err"]
  /\ voice' = IF ok THEN Apply(voice, treqs[t][i]) ELSE voice
  /\ UNCHANGED <<notMain, game, wlock, rlock, tpc, tcall, treqs, tdel, tret, mainVars>>

\* join_all returns; its results are dropped.  end_game is over,
\* emergency_meeting goes on to write the record.
MainJoined(t) ==
  /\ Running
  /\ tpc[t] = "batch"
  /\ Pending(tres[t]) = {}
  /\ IF tcall[t] = "end_game"
     THEN MainDone(t, "ok")
     ELSE /\ tpc' = [tpc EXCEPT ![t] = "em_commit"]
          /\ UNCHANGED tret
  /\ UNCHANGED <<voice, notMain, game, wlock, rlock, tcall, treqs, tres, tdel, mainVars>>

\* emergency_meeting: meeting_in_progress is set if there is a record.
MainMeetingCommit(t) ==
  /\ Running
  /\ tpc[t] = "em_commit"
  /\ CanWrite
  /\ game' = IF game = <<>> THEN game
             ELSE <<[game[1] EXCEPT !.meeting_in_progress = TRUE]>>
  /\ MainDone(t, "ok")
  /\ UNCHANGED <<voice, notMain, wlock, rlock, tcall, treqs, tres, tdel, mainVars>>

\* The handler is over (returned or panicked): the loop takes the next event,
\* the spawned task is gone.
MainReturn(t) ==
  /\ Running
  /\ tpc[t] \in {"done"} \cup (IF t = Spawned THEN {"panicked"} ELSE {})
  /\ tpc' = [tpc EXCEPT ![t] = "idle"]
  /\ tcall' = [tcall EXCEPT ![t] = "none"]
  /\ treqs' = [treqs EXCEPT ![t] = <<>>]
  /\ tres' = [tres EXCEPT ![t] = <<>>]
  /\ tdel' = [tdel EXCEPT ![t] = "none"]
  /\ tret' = [tret EXCEPT ![t] = "none"]
  /\ mev' = [mev EXCEPT ![t] = NoEvent]
  /\ mresp' = [mresp EXCEPT ![t] = {}]
  /\ mleft' = [mleft EXCEPT ![t] = <<>>]
  /\ inserted' = [inserted EXCEPT ![t] = "none"]
  /\ UNCHANGED <<voice, notMain, game, wlock, rlock>>

NextMain ==
  \/ \E ev \in Commands : MainSpawn(ev)
  \/ \E ok \in BOOLEAN : MainCmdDeleted(ok)
  \/ \E m \in MsgIds : MainNewStore(m)
  \/ MainNewDelay
  \/ \E t \in Tasks : MainMuteNext(t)
  \/ \E t \in Tasks, ok \in BOOLEAN : MainMuteReqDone(t, ok)
  \/ \E t \in Tasks : MainMuteCommit(t)
  \/ MainEndAuth
  \/ MainEndTake
  \/ \E ok \in BOOLEAN : MainEndCtrlDeleted(ok)
  \/ MainDeadAuth
  \/ MainDeadInsert
  \/ \E ok \in BOOLEAN : MainDeadNotified(ok)
  \/ \E ok \in BOOLEAN : MainDeadMuted(ok)
  \/ MainDeadDelay
  \/ \E ev \in Reactions : MainReactMeeting(ev)
  \/ \E ev \in Reactions : MainUnreactMeeting(ev)
  \/ \E ev \in Reactions : MainReactDead(ev)
  \/ MainReactDeadInsert
  \/ MainReactDeadRead
  \/ \E ok \in BOOLEAN : MainReactDeadMuted(ok)
  \/ \E t \in Tasks, i \in DOMAIN UserOrder, ok \in BOOLEAN : MainReqComplete(t, i, ok)
  \/ \E t \in Tasks : MainJoined(t)
  \/ \E t \in Tasks : MainMeetingCommit(t)
  \/ \E t \in Tasks : MainReturn(t)

SpecMain == Init /\ [][NextMain]_vars

(***************************************************************************)
(* The two ways of marking someone dead in main.rs, from any round and for *)
(* any user: the target of the dead command is whatever id parses, and a   *)
(* reaction comes from whoever reacted, the program's own account too.     *)
(***************************************************************************)
DeadCommands == [kind : {"dead"}, user : Humans, arg : Users \cup {"none"}]

DeadReactions == [kind : {"react_dead"}, user : Users, arg : MsgIds]

\* The store: empty, or the record of a round of u1 on m1.
Rounds ==
  {<<>>} \cup
  {<<[dead |-> d, ctrl_msg |-> "m1", ctrl_user |-> "u1", meeting_in_progress |-> b]>> :
     d \in SUBSET Users, b \in BOOLEAN}

InitDead ==
  /\ voice \in InitVoices
  /\ player_names = <<>>
  /\ InitBot
  /\ game \in Rounds
  /\ wlock = "none"
  /\ rlock = {}
  /\ tpc = [t \in Tasks |-> "idle"]
  /\ tcall = [t \in Tasks |-> "none"]
  /\ treqs = [t \in Tasks |-> <<>>]
  /\ tres = [t \in Tasks |-> <<>>]
  /\ tdel = [t \in Tasks |-> "none"]
  /\ tnotes = [t \in Tasks |-> 0]
  /\ tlogged = [t \in Tasks |-> 0]
  /\ tret = [t \in Tasks |-> "none"]
  /\ InitMain
  /\ reply = NoReply

NextDead ==
  \/ \E ev \in DeadCommands : MainSpawn(ev)
  \/ \E ok \in BOOLEAN : MainCmdDeleted(ok)
  \/ MainDeadAuth
  \/ MainDeadInsert
  \/ \E ok \in BOOLEAN : MainDeadNotified(ok)
  \/ \E ok \in BOOLEAN : MainDeadMuted(ok)
  \/ MainDeadDelay
  \/ \E ev \in DeadReactions : MainReactDead(ev)
  \/ MainReactDeadInsert
  \/ MainReactDeadRead
  \/ \E ok \in BOOLEAN : MainReactDeadMuted(ok)
  \/ \E t \in Tasks : MainReturn(t)

SpecDead == InitDead /\ [][NextDead]_vars

(***************************************************************************)
(* Properties of the standalone program.                                   *)
(***************************************************************************)
\* The spawned task takes a step of its handler.
SpawnedSteps == tpc'[Spawned] # tpc[Spawned]

\* The spawned task handles a dead command whose author is neither the control
\* user of the record (if there is one) nor an owner.
Outsider ==
  /\ mev[Spawned].kind = "dead"
  /\ mev[Spawned].user \notin Owners
  /\ ~(game # <<>> /\ game[1].ctrl_user = mev[Spawned].user)

\* The handler of the spawned task ends with this step.
SpawnedEnds == tpc[Spawned] \notin {"done", "idle"} /\ tpc'[Spawned] = "done"

DecidesAuth == tpc[Spawned] \in {"end_auth", "dead_auth"} /\ SpawnedSteps

\* The command was accepted: the handler goes on to the record, or asks for the
\* target a dead command lacks.
Accepted ==
  \/ tpc'[Spawned] \in {"end_take", "dead_insert"}
  \/ "no_target" \in mresp'[Spawned]

\* C12: while a round is active an end or dead command is accepted exactly if
\* its author is the control user of the round or an owner.  main.rs never
\* consults its owners: an owner who is not the control user is turned away.
C12_Original ==
  [][(DecidesAuth /\ game # <<>>) =>
       (Accepted <=> is_in_control(game, mev[Spawned].user))]_vars

(***************************************************************************)
(* The Bot's commands and its matcher (bot.rs), on drawn inputs.           *)
(***************************************************************************)
(* Properties of the store (context.rs).                                   *)
(***************************************************************************)
\* A step of Context::start_game.
StartsGame == \E t \in Tasks, msg \in Msgs : CtxStartGame(t, msg)

\* C15 as stated: start_game on a store that holds a record leaves that record
\* as it is: dead set, control user, control message and meeting flag.
C15_Original == [][(game # <<>> /\ StartsGame) => game' = game]_vars

Players(v, ch) == {u \in Users : v[u].ch = ch /\ ~Member[u].bot /\ ~Member[u].spectator}

\* rq is what end-game orchestration is to request: mute=off for each occupant
\* of the living channel, a move to the living channel for each occupant of the
\* dead channel, one request each and no other.
EndGameRequests(rq, v) ==
  /\ \A u \in Players(v, "living") : \E i \in 1..Len(rq) : rq[i] = Req(u, "off", "keep")
  /\ \A u \in Players(v, "dead") : \E i \in 1..Len(rq) : rq[i] = Req(u, "keep", "living")
  /\ Len(rq) = Cardinality(Players(v, "living")) + Cardinality(Players(v, "dead"))

\* C22 as stated, for the Context: an end_game that found a round issues the
\* requests of end-game orchestration and leaves no record.
C22_Original ==
  [][\A t \in Tasks :
       (tpc[t] = "eg_delete" /\ tpc'[t] # "eg_delete") =>
         /\ tpc'[t] = "batch"
         /\ EndGameRequests(treqs'[t], voice)
         /\ game' = <<>>]_vars

\* The task is suspended on a remote call: the mute request of make_dead, the
\* delete_message of end_game, the requests of a batch or its notification.
RemoteInFlight(t) == tpc[t] \in {"md_mute", "eg_delete", "batch", "notify"}

HoldsLock(t) == wlock = t \/ t \in rlock

\* C17 as stated: a task of the Context that is suspended on a remote call
\* holds neither the write lock nor a read lock on the store.
C17_Original == \A t \in Tasks : RemoteInFlight(t) => ~HoldsLock(t)

\* Task t commits meeting_in_progress after the batch of its meeting toggle.
CommitsToggle(t) == tpc[t] = "commit" /\ tpc'[t] # "commit"

\* C29: the commit after the batch of mute_players or emergency_meeting finds
\* a record, whatever end_game another task ran in the meantime.
C29_Original ==
  [][\A t \in Tasks : CommitsToggle(t) => (game # <<>> /\ tpc'[t] = "done")]_vars


(***************************************************************************)
(* Properties of the dead set and of the meeting flag (main.rs).           *)
(***************************************************************************)
\* The task has its mute request in flight after marking someone dead.
MutesMarked(t) == tpc[t] \in {"rd_mute", "dead_mute"}

\* C16 as stated: marking dead is followed by a mute request only if the insert
\* was a new addition to the dead set.
C16_Original == \A t \in Tasks : MutesMarked(t) => inserted[t] = "new"

\* The step by which mute_players of task t clears meeting_in_progress.
ClearsMeeting(t) ==
  /\ tpc[t] = "mp_commit" /\ tpc'[t] # "mp_commit"
  /\ game # <<>> /\ game[1].meeting_in_progress
  /\ game' # <<>> /\ ~game'[1].meeting_in_progress

\* C19 as stated, for the end of a meeting: meeting_in_progress becomes false
\* only when the request of every member mute_players goes through has
\* completed.
C19_Original == [][\A t \in Tasks : ClearsMeeting(t) => Tail(mleft[t]) = <<>>]_vars

\* The step by which the event loop issues the requests of emergency_meeting.
MainStartsMeeting == tpc[Loop] = "idle" /\ tpc'[Loop] = "batch" /\ game # <<>>

\* C20 as stated, for main.rs, where the dead are those of the record's dead
\* set: the requests of emergency_meeting are mute=off for each occupant of the
\* living channel who is not dead, move to the living channel with mute=on for
\* each occupant of the dead channel, and no other.
C20_Original ==
  [][MainStartsMeeting =>
       /\ \A i \in 1..Len(treqs'[Loop]) :
            LET r == treqs'[Loop][i]
            IN  \/ /\ voice[r.user].ch = "living"
                   /\ r.user \notin game[1].dead
                   /\ r = Req(r.user, "off", "keep")
                \/ /\ voice[r.user].ch = "dead"
                   /\ r = Req(r.user, "on", "living")
       /\ \A u \in Humans :
            Cardinality(RequestsFor(treqs'[Loop], u)) =
              IF \/ voice[u].ch = "dead"
                 \/ voice[u].ch = "living" /\ u \notin game[1].dead
              THEN 1 ELSE 0]_vars

\* mute_players of task t has read the dead set for one member and has members
\* left to read it for.
MidMuteRun(t) == tpc[t] \in {"mp_req", "mp_commit"} /\ Tail(mleft[t]) # <<>>

\* Whether m counts as dead in the store g.
DeadIn(g, m) == g # <<>> /\ m \in g[1].dead

\* C21 as stated, for main.rs: the requests of one run of mute_players are built
\* from one dead set, so no member the run has still to read the dead set for
\* changes between dead and living once the run has read it for another.
C21_Original ==
  [][\A t \in Tasks :
       MidMuteRun(t) =>
         \A i \in 2..Len(mleft[t]) :
           DeadIn(game', mleft[t][i]) = DeadIn(game, mleft[t][i])]_vars

\* C23 as stated: no request a task has issued is for a bot account or for a
\* member with the spectator role.
C23_Original ==
  \A t \in Tasks : \A i \in 1..Len(treqs[t]) :
    ~Member[treqs[t][i].user].bot /\ ~Member[treqs[t][i].user].spectator

\* The event loop takes up a reaction / does a step of handling one.
TakesReaction == tpc[Loop] = "idle" /\ tpc'[Loop] # "idle"

LoopSteps == tpc'[Loop] # tpc[Loop]

UnwrapsDeadReaction(t) == tpc[t] = "rd_read" /\ tpc'[t] # "rd_read"

UnwrapsMutePlayers(t) == tpc[t] = "mp_loop" /\ mleft[t] # <<>> /\ tpc'[t] # "mp_loop"

\* C30: every unwrap of the record in main.rs finds a record, whatever end
\* command runs beside the handler.
C30_Original ==
  [][\A t \in Tasks :
       (UnwrapsDeadReaction(t) \/ UnwrapsMutePlayers(t)) =>
         (game # <<>> /\ tpc'[t] # "panicked")]_vars

\* Task t has returned from an end of round that took the record: the call
\* that deletes the control message has resolved.
EndRoundReturned(t) ==
  tpc[t] = "done" /\ tcall[t] \in {"end", "end_game"} /\ tdel[t] # "none"

\* The requests of end_game were handed to join_all: this happens in the step
\* in which the deletion of the control message resolves with Ok.
UnmuteBatchIssued(t) == tdel[t] = "ok"

\* C31: no state has the record gone and an end of round returned that took
\* it without having issued the unmute batch, not even when deleting the
\* control message failed.
C31_Original ==
  \A t \in Tasks : (EndRoundReturned(t) /\ game = <<>>) => UnmuteBatchIssued(t)

\* C33: the requests emergency_meeting issues hold no mute=off for a member of
\* the dead set of the record.
C33_Original ==
  [][MainStartsMeeting =>
       \A i \in 1..Len(treqs'[Loop]) :
         treqs'[Loop][i].mute = "off" => treqs'[Loop][i].user \notin game[1].dead]_vars

\* Task t, having marked someone dead, decides whether to mute: the dead
\* reaction reads meeting_in_progress, the dead command has posted its notice.
DecidesMute(t) ==
  \/ tpc[t] = "rd_read" /\ tpc'[t] \notin {"rd_read", "panicked"}
  \/ tpc[t] = "dead_notify" /\ tpc'[t] # "dead_notify" /\ tret'[t] # "err"

\* The user task t has marked dead.
Marked(t) == IF mev[t].kind = "dead" THEN mev[t].arg ELSE mev[t].user

\* C34: marking dead is followed by a request exactly if the user was newly
\* added to the dead set and a meeting is in progress, and the request then is
\* the one mute=on for that user.
C34_Original ==
  [][\A t \in Tasks :
       DecidesMute(t) =>
         IF inserted[t] = "new" /\ game # <<>> /\ game[1].meeting_in_progress
         THEN treqs'[t] = <<Req(Marked(t), "on", "keep")>>
         ELSE treqs'[t] = <<>>]_vars





(***************************************************************************)
\* The longest roster drawn for the matcher.
MaxRoster == 2

\* Player names that differ in case, so that rosters hold duplicates and near
\* misses of the members' names.
MatchNames == {"a", "A", "b"}

MatchPlayers == [name : MatchNames, dead : BOOLEAN, impostor : {FALSE}]

MatchRosters == UNION {[1..n -> MatchPlayers] : n \in 0..MaxRoster}

MatchStates ==
  {[kind |-> k, players |-> <<>>, meeting |-> "NoMeeting"] : k \in {"None", "Menu"}}
  \cup {[kind |-> k, players |-> r, meeting |-> "NoMeeting"] :
          k \in {"Lobby", "InGame"}, r \in MatchRosters}

\* The in-game names the ident command is given.
IGNs == {"A"}

\* The arguments of ident: a user id or nothing first, then a name or nothing.
IdentArgs == [target : Humans \cup {"none"}, ign : IGNs \cup {"none"}]

\* The routines whose requests are computed.
PlanRoutines == {"start_meeting", "mute_players", "end_game"}

InitCmd ==
  /\ voice \in InitVoices
  /\ player_names = <<>>
  /\ chan \in MatchStates
  /\ unseen = TRUE
  /\ closed = FALSE
  /\ bot_state = "PreGame"
  /\ pc = "await"
  /\ reqs = <<>>
  /\ res = <<>>
  /\ ret = <<>>
  /\ notes = 0
  /\ logged = 0
  /\ invoked = <<>>
  /\ lastClass = "none"
  /\ scen = 0
  /\ calls = NoCalls
  /\ InitCtx
  /\ InitMain
  /\ reply = NoReply

\* HashMap::insert on player_names.
Insert(names, u, ign) ==
  [x \in DOMAIN names \cup {u} |-> IF x = u THEN ign ELSE names[x]]

\* An ident that stores the missing name as the empty one and reports success.
CmdIdentStoresNone(author, args) ==
  /\ player_names' = Insert(player_names, IF args.target # "none" /\ author \in Owners
                                           THEN args.target ELSE author, args.ign)
  /\ reply' = [kind |-> IF args.target # "none" THEN "set_other" ELSE "set_self"]
  /\ UNCHANGED <<voice, botVars, ctxVars, mainVars>>

\* Bot::ident_player: an owner names another user, anyone names themself.
CmdIdent(author, args) ==
  /\ IF args.target # "none"
     THEN IF author \in Owners
          THEN IF args.ign # "none"
               THEN /\ player_names' = Insert(player_names, args.target, args.ign)
                    /\ reply' = [kind |-> "set_other"]
               ELSE /\ reply' = [kind |-> "must_include"]
                    /\ UNCHANGED player_names
          ELSE /\ reply' = [kind |-> "only_owners"]
               /\ UNCHANGED player_names
     ELSE IF args.ign # "none"
          THEN /\ player_names' = Insert(player_names, author, args.ign)
               /\ reply' = [kind |-> "set_self"]
          ELSE /\ reply' = [kind |-> "please_include"]
               /\ UNCHANGED player_names
  /\ UNCHANGED <<voice, botVars, ctxVars, mainVars>>

\* The report of check_matching: the unmatched members of the living channel.
check_matching(s, names, v) ==
  IF HasRoster(s)
  THEN LET matched == match_members_to_players(s, names, get_members_in_channel(v, "living"))
           unmatched == SelectSeq(matched, LAMBDA e : e.p = <<>>)
       IN  IF unmatched = <<>> THEN [kind |-> "all_matched"]
           ELSE [kind |-> "unmatched", ids |-> MapSeq(unmatched, LAMBDA e : e.m)]
  ELSE [kind |-> "no_lobby"]

\* Bot::check_matching.
CmdCheck ==
  /\ reply' = check_matching(chan, player_names, voice)
  /\ UNCHANGED <<voice, player_names, botVars, ctxVars, mainVars>>

\* match_members_to_players applied to the members of a channel.
Match(ch) ==
  /\ reply' = [kind |-> "matched",
               members |-> get_members_in_channel(voice, ch),
               pairs |-> IF HasRoster(chan)
                         THEN <<match_members_to_players(
                                  chan, player_names, get_members_in_channel(voice, ch))>>
                         ELSE <<>>]
  /\ UNCHANGED <<voice, player_names, botVars, ctxVars, mainVars>>

\* The requests a routine of the Bot builds in this state; start_meeting and
\* mute_players panic without a roster.
Plan(r) ==
  /\ reply' = IF r = "end_game"
              THEN [kind |-> "futs", routine |-> r, futs |-> EndGameFuts(voice)]
              ELSE IF ~HasRoster(chan) THEN [kind |-> "panic", routine |-> r]
              ELSE [kind |-> "futs", routine |-> r,
                    futs |-> IF r = "start_meeting"
                             THEN StartMeetingFuts(chan, player_names, voice)
                             ELSE MutePlayersFuts(chan, player_names, voice)]
  /\ UNCHANGED <<voice, player_names, botVars, ctxVars, mainVars>>

NextCmd ==
  \/ \E author \in Humans, args \in IdentArgs : CmdIdent(author, args)
  \/ CmdCheck
  \/ \E ch \in {"living", "dead"} : Match(ch)
  \/ \E r \in PlanRoutines : Plan(r)

SpecCmd == InitCmd /\ [][NextCmd]_vars

(***************************************************************************)
(* Properties of the matcher and of the requests built on it.              *)
(***************************************************************************)
\* The lookup key of a member: the stored in-game name, else the nickname, else
\* the account name.
Key(u) ==
  IF u \in DOMAIN player_names THEN player_names[u]
  ELSE IF Member[u].nick # <<>> THEN Member[u].nick[1]
  ELSE Member[u].name

\* The seats of the observed roster whose player bears the key of u.
SeatsOf(u) == {i \in 1..Len(chan.players) : chan.players[i].name = Key(u)}

IsUnmatched(u) == SeatsOf(u) = {}

\* The player u is matched to: the one in the first such seat.
PlayerOf(u) == chan.players[CHOOSE i \in SeatsOf(u) : \A j \in SeatsOf(u) : i <= j]

InVoice == Occupants(voice, "living") \cup Occupants(voice, "dead")

Planned(r) == reply.kind = "futs" /\ reply.routine = r /\ HasRoster(chan)

\* C13 as stated: in every routine an occupant of a voice channel that matches
\* no player gets no request.
C13_Original ==
  \A r \in PlanRoutines :
    Planned(r) => \A u \in InVoice : IsUnmatched(u) => RequestsFor(reply.futs, u) = {}

\* C13: mute_players (start-game, end-meeting) and the living-channel half of
\* start_meeting issue no request for an unmatched occupant, and one request for
\* each occupant they are about; the dead-channel half of start_meeting and the
\* whole of end_game address every occupant, matched or not.  The check command
\* reports exactly the unmatched occupants of the living channel.
C13_Unmatched ==
  /\ Planned("mute_players") =>
       /\ \A u \in Occupants(voice, "living") :
            Cardinality(RequestsFor(reply.futs, u)) = IF IsUnmatched(u) THEN 0 ELSE 1
       /\ \A u \in Occupants(voice, "dead") : RequestsFor(reply.futs, u) = {}
  /\ Planned("start_meeting") =>
       /\ \A u \in Occupants(voice, "living") :
            Cardinality(RequestsFor(reply.futs, u)) =
              IF IsUnmatched(u) \/ PlayerOf(u).dead THEN 0 ELSE 1
       /\ \A u \in Occupants(voice, "dead") : Cardinality(RequestsFor(reply.futs, u)) = 1
  /\ Planned("end_game") =>
       \A u \in InVoice : Cardinality(RequestsFor(reply.futs, u)) = 1
  /\ reply.kind = "unmatched" =>
       /\ HasRoster(chan)
       /\ {reply.ids[i] : i \in 1..Len(reply.ids)}
            = {u \in Occupants(voice, "living") : IsUnmatched(u)}
       /\ Len(reply.ids) = Cardinality({u \in Occupants(voice, "living") : IsUnmatched(u)})
  /\ reply.kind = "all_matched" =>
       /\ HasRoster(chan)
       /\ \A u \in Occupants(voice, "living") : ~IsUnmatched(u)

\* C13: mute_players has built a request for a matched occupant of the living
\* channel and none for an unmatched one beside it.
C13_Witness ==
  /\ Planned("mute_players")
  /\ \E u \in Occupants(voice, "living") : IsUnmatched(u)
  /\ \E u \in Occupants(voice, "living") :
       ~IsUnmatched(u) /\ RequestsFor(reply.futs, u) # {}

\* C14: the matcher returns one entry per member, in the order given; the entry
\* of a member holds the first player of the roster whose name is exactly the
\* member's key (the stored in-game name, else the nickname, else the account
\* name) and no player if no name equals the key.  Without a roster it returns
\* no list at all.
C14_Matcher ==
  reply.kind = "matched" =>
    IF ~HasRoster(chan) THEN reply.pairs = <<>>
    ELSE LET matched == reply.pairs[1]
         IN  /\ Len(matched) = Len(reply.members)
             /\ \A i \in 1..Len(matched) :
                  /\ matched[i].m = reply.members[i]
                  /\ matched[i].p = IF IsUnmatched(matched[i].m) THEN <<>>
                                    ELSE <<PlayerOf(matched[i].m)>>

\* C14: two members were matched against a roster of two different players of
\* one name; one member has a stored name and got the first of the two, the
\* other is known by a nickname no player bears.
C14_Witness ==
  /\ reply.kind = "matched"
  /\ HasRoster(chan)
  /\ Len(reply.members) = 2
  /\ \E i \in 1..2 :
       LET u == reply.pairs[1][i].m
       IN  /\ u \in DOMAIN player_names
           /\ Cardinality(SeatsOf(u)) = 2
           /\ chan.players[1] # chan.players[2]
           /\ reply.pairs[1][i].p = <<chan.players[1]>>
  /\ \E i \in 1..2 :
       /\ reply.pairs[1][i].m \notin DOMAIN player_names
       /\ Member[reply.pairs[1][i].m].nick # <<>>
       /\ reply.pairs[1][i].p = <<>>


(***************************************************************************)
(* Bot::start as a whole (bot.rs): the watcher task and the event loop     *)
(* that handles the chat commands, side by side.                           *)
(***************************************************************************)
\* Everybody is in the living channel with the microphone open.
StartVoice == [u \in Users |-> [ch |-> "living", mute |-> FALSE]]

\* What the source publishes here: no game, a lobby, a round in play and a
\* meeting, all with the one-seat rosters.
StartFeed ==
  {s \in States : Len(s.players) <= 1 /\ s.meeting \in {"NoMeeting", "Discussion"}}

InitStart ==
  /\ voice = StartVoice
  /\ player_names = <<>>
  /\ InitBot
  /\ InitCtx
  /\ InitMain
  /\ reply = NoReply

\* The task spawned at bot.rs 226 and the `while let Some(event)` loop of 278-293.
NextStart ==
  \/ \E s \in StartFeed : Feed(s)
  \/ FeedClose
  \/ Changed
  \/ ChangedErr
  \/ Dispatch
  \/ StartMeetingBuild
  \/ SleepDone
  \/ MutePlayersBuild
  \/ EndGameBuild
  \/ \E i \in 1..Len(reqs), ok \in BOOLEAN : ReqComplete(i, ok)
  \/ BatchFinish
  \/ Return
  \/ \E author \in Humans, args \in IdentArgs : CmdIdent(author, args)
  \/ CmdCheck

SpecStart == InitStart /\ [][NextStart]_vars

\* The watcher's side of a step: a phase transition or a routine entered.
WatcherActs == bot_state' # bot_state \/ (pc = "woken" /\ pc' \notin {"woken", "await"})

\* The event loop handles a command: ident stores the author's name and says so.
HandlesIdent == \E author \in Humans, args \in IdentArgs :
                  /\ CmdIdent(author, args)
                  /\ reply'.kind = "set_self"
                  /\ author \in DOMAIN player_names'

\* C25 as stated: from the moment the sender of the game-state stream is
\* dropped the watcher makes no phase transition and enters no routine.
C25_Original == [][closed => ~WatcherActs]_vars

\* C25: once changed() has returned the error (the last value published
\* before the closure having been handled first) the watcher has left its
\* loop for good: no phase transition, no routine, no request; and the event
\* loop can still handle a command.
C25_Closure ==
  /\ [][pc = "stopped" => (pc' = "stopped" /\ ~WatcherActs /\ UNCHANGED <<botVars, voice>>)]_vars
  /\ [](pc = "stopped" => ENABLED HandlesIdent)
  /\ [](closed /\ ~unseen /\ pc = "await" => ENABLED ChangedErr /\ ~ENABLED Changed)

\* The watcher has stopped and a name was stored by a command.
C25_Witness == pc = "stopped" /\ closed /\ player_names # <<>>

(***************************************************************************)
(* The commands that take arguments: dead (main.rs) and ident (bot.rs),    *)
(* on a round drawn from Rounds.                                           *)
(***************************************************************************)
InitArgs ==
  /\ voice = StartVoice
  /\ player_names = <<>>
  /\ InitBot
  /\ game \in Rounds
  /\ wlock = "none"
  /\ rlock = {}
  /\ tpc = [t \in Tasks |-> "idle"]
  /\ tcall = [t \in Tasks |-> "none"]
  /\ treqs = [t \in Tasks |-> <<>>]
  /\ tres = [t \in Tasks |-> <<>>]
  /\ tdel = [t \in Tasks |-> "none"]
  /\ tnotes = [t \in Tasks |-> 0]
  /\ tlogged = [t \in Tasks |-> 0]
  /\ tret = [t \in Tasks |-> "none"]
  /\ InitMain
  /\ reply = NoReply

NextArgs ==
  \/ \E ev \in DeadCommands : MainSpawn(ev)
  \/ \E ok \in BOOLEAN : MainCmdDeleted(ok)
  \/ MainDeadAuth
  \/ MainDeadInsert
  \/ \E ok \in BOOLEAN : MainDeadNotified(ok)
  \/ \E ok \in BOOLEAN : MainDeadMuted(ok)
  \/ MainDeadDelay
  \/ MainReturn(Spawned)
  \/ \E author \in Humans, args \in IdentArgs : CmdIdent(author, args)

SpecArgs == InitArgs /\ [][NextArgs]_vars

\* The spawned task handles a dead command that names no target.
DeadNoTarget == mev[Spawned].kind = "dead" /\ mev[Spawned].arg = "none"

\* The handler of the spawned task returns (Ok or Err).
HandlerReturns == tpc[Spawned] \notin {"idle", "done"} /\ tpc'[Spawned] = "done"

\* This step is the ident command of `author` with `args`.
IdentStep(author, args) == CmdIdent(author, args) /\ reply' # reply

\* The three pieces of state the commands are about.
Stores == <<game, player_names>>

InitOk ==
  /\ voice \in {v \in InitVoices : \A u \in Users : ~v[u].mute}
  /\ player_names = <<>>
  /\ InitBot
  /\ InitCtx
  /\ InitMain
  /\ reply = NoReply

NextOk ==
  \/ \E s \in States : Feed(s)
  \/ FeedClose
  \/ Changed
  \/ ChangedErr
  \/ Dispatch
  \/ StartMeetingBuild
  \/ SleepDone
  \/ MutePlayersBuild
  \/ EndGameBuild
  \/ \E i \in 1..Len(reqs) : ReqComplete(i, TRUE)
  \/ BatchFinish
  \/ Return

SpecOk == InitOk /\ [][NextOk]_vars

\* end_game is the routine that has just returned.
EndGameCompleted ==
  pc = "returned" /\ invoked # <<>> /\ invoked[Len(invoked)] = "end_game"

\* The occupants of the two voice channels of the bot.
Connected == {u \in Users : voice[u].ch \in {"living", "dead"}}

\* C32: when end_game has completed, with every request carried out and
\* nobody moving otherwise, every occupant of the living or dead channel is
\* in the living channel and not server-muted.
C32_EndGameRestores ==
  EndGameCompleted => \A u \in Connected : voice[u].ch = "living" /\ ~voice[u].mute

\* end_game has completed on a no-round observation, having unmuted one
\* member in the living channel and moved another back from the dead channel.
C32_Witness ==
  /\ EndGameCompleted
  /\ invoked = <<"end_game">>
  /\ bot_state = "PreGame"
  /\ \E i \in 1..Len(ret) : ret[i].mute = "off"
  /\ \E i \in 1..Len(ret) : ret[i].channel = "living"

=========================================================================
